---- MODULE Spec2Model ----
\* Ledger engine of the bookkeeping backend: the voucher template engine,
\* the draft lifecycle (create / regenerate / PATCH edit / delete) and the
\* posting transaction, over a PostgreSQL store reached through Prisma.
\*
\* Every operation runs in a Prisma $transaction on PostgreSQL.  The draft
\* operations run READ COMMITTED (the default): each statement sees what is
\* committed when it runs, and the writes of a transaction become visible
\* to the others together, at its commit.  postVoucher runs SERIALIZABLE:
\* it reads one snapshot, and it is aborted when a concurrent commit wrote
\* the row it updates or when a concurrent postVoucher wrote into the
\* series it read.  An operation is therefore two steps at most: its reads
\* (with the checks made on them), then its writes and commit; for
\* createDraftVoucher, which reads nothing, the insert of the header, then
\* the rest of the transaction and its commit.
\*
\* Amounts are JavaScript numbers in the source.  They are modelled as
\* integers counting thousandths of the currency unit, so the tolerance
\* 0.001 of the source is one unit (Epsilon).
EXTENDS Integers, Sequences, FiniteSets, TLC

\* ---------------------------------------------------------------------
\* Bounds of the model
\* ---------------------------------------------------------------------
MaxAmount == 2          \* largest totalAmount / journal line amount drawn
MaxJournalLen == 3      \* longest caller-supplied journalEntries list
MaxVouchers == 2        \* voucher ids ever allocated by createDraftVoucher
MaxOps == 5             \* requests started in one behaviour

\* ---------------------------------------------------------------------
\* Program constants
\* ---------------------------------------------------------------------
Epsilon == 1            \* 0.001, in thousandths
MinEntries == 2         \* "at least two entries"

NoVal == "undefined"    \* undefined / null of the source, for strings
NoDate == 0             \* undefined, for a date (dates are 1, 2, ...)
NoAmount == -1          \* undefined / null, for an amount
NoNumber == -1          \* null voucherNumber

Sides == {"DEBIT", "CREDIT"}

VoucherType == {"SALE", "PURCHASE", "RECEIPT", "PAYMENT", "CONTRA", "JOURNAL"}

\* The control accounts resolveVoucherIds hands to the template engine;
\* account ids are written as the seeded account codes.
ResolvedAccounts ==
    [ salesAccountId           |-> "SALES",
      purchaseExpenseAccountId |-> "PURCHASE_EXPENSE",
      accountsReceivableId     |-> "ACCOUNTS_RECEIVABLE",
      accountsPayableId        |-> "ACCOUNTS_PAYABLE",
      ownerCapitalId           |-> "OWNER_CAPITAL",
      cashAccountId            |-> "CASH",
      bankAccountId            |-> "BANK" ]

GeneratedEntry(accountId, side, amount) ==
    [accountId |-> accountId, side |-> side, amount |-> amount]

\* undefined, for an entry list: a value no caller-supplied list equals
NoList == << GeneratedEntry(NoVal, NoVal, 0) >>

\* A call of the engine either returns a list of entries or throws.
Returns(entries) == [ok |-> TRUE, entries |-> entries, error |-> NoVal]
Throws(error) == [ok |-> FALSE, entries |-> <<>>, error |-> error]

\* entries.filter(e => e.side === side).reduce((s, e) => s + e.amount, 0)
RECURSIVE SumSide(_, _)
SumSide(entries, side) ==
    IF entries = <<>> THEN 0
    ELSE (IF Head(entries).side = side THEN Head(entries).amount ELSE 0)
         + SumSide(Tail(entries), side)

Abs(x) == IF x < 0 THEN -x ELSE x

\* ---------------------------------------------------------------------
\* Voucher template engine
\* ---------------------------------------------------------------------
\* Mutant of saleTemplate: a cash sale credits the payment account and
\* debits sales.
saleTemplateCreditsCash(input) ==
    CASE input.subType = "CASH_SALE" ->
            IF input.paymentAccountId = NoVal
            THEN Throws("InvalidTemplateInput")
            ELSE Returns(<< GeneratedEntry(input.paymentAccountId, "CREDIT", input.totalAmount),
                            GeneratedEntry(input.accounts.salesAccountId, "DEBIT", input.totalAmount) >>)
      [] input.subType = "CREDIT_SALE" ->
            Returns(<< GeneratedEntry(input.accounts.accountsReceivableId, "DEBIT", input.totalAmount),
                       GeneratedEntry(input.accounts.salesAccountId, "CREDIT", input.totalAmount) >>)
      [] OTHER -> Throws("InvalidTemplateInput")

saleTemplate(input) ==
    CASE input.subType = "CASH_SALE" ->
            IF input.paymentAccountId = NoVal
            THEN Throws("InvalidTemplateInput")
            ELSE Returns(<< GeneratedEntry(input.paymentAccountId, "DEBIT", input.totalAmount),
                            GeneratedEntry(input.accounts.salesAccountId, "CREDIT", input.totalAmount) >>)
      [] input.subType = "CREDIT_SALE" ->
            Returns(<< GeneratedEntry(input.accounts.accountsReceivableId, "DEBIT", input.totalAmount),
                       GeneratedEntry(input.accounts.salesAccountId, "CREDIT", input.totalAmount) >>)
      [] OTHER -> Throws("InvalidTemplateInput")

purchaseTemplate(input) ==
    CASE input.subType = "CASH_PURCHASE" ->
            IF input.paymentAccountId = NoVal
            THEN Throws("InvalidTemplateInput")
            ELSE Returns(<< GeneratedEntry(input.accounts.purchaseExpenseAccountId, "DEBIT", input.totalAmount),
                            GeneratedEntry(input.paymentAccountId, "CREDIT", input.totalAmount) >>)
      [] input.subType = "CREDIT_PURCHASE" ->
            Returns(<< GeneratedEntry(input.accounts.purchaseExpenseAccountId, "DEBIT", input.totalAmount),
                       GeneratedEntry(input.accounts.accountsPayableId, "CREDIT", input.totalAmount) >>)
      [] OTHER -> Throws("InvalidTemplateInput")

receiptTemplate(input) ==
    IF input.paymentAccountId = NoVal
    THEN Throws("InvalidTemplateInput")
    ELSE Returns(<< GeneratedEntry(input.paymentAccountId, "DEBIT", input.totalAmount),
                    GeneratedEntry(input.accounts.accountsReceivableId, "CREDIT", input.totalAmount) >>)

\* Mutant of paymentTemplate: EXPENSE_PAYMENT does not require expenseAccountId.
paymentTemplateNoExpenseCheck(input) ==
    IF input.paymentAccountId = NoVal
    THEN Throws("InvalidTemplateInput")
    ELSE CASE input.subType = "VENDOR_PAYMENT" ->
                Returns(<< GeneratedEntry(input.accounts.accountsPayableId, "DEBIT", input.totalAmount),
                           GeneratedEntry(input.paymentAccountId, "CREDIT", input.totalAmount) >>)
           [] input.subType = "EXPENSE_PAYMENT" ->
                Returns(<< GeneratedEntry(input.expenseAccountId, "DEBIT", input.totalAmount),
                           GeneratedEntry(input.paymentAccountId, "CREDIT", input.totalAmount) >>)
           [] input.subType = "OWNER_WITHDRAWAL" ->
                Returns(<< GeneratedEntry(input.accounts.ownerCapitalId, "DEBIT", input.totalAmount),
                           GeneratedEntry(input.paymentAccountId, "CREDIT", input.totalAmount) >>)
           [] OTHER -> Throws("InvalidTemplateInput")

paymentTemplate(input) ==
    IF input.paymentAccountId = NoVal
    THEN Throws("InvalidTemplateInput")
    ELSE CASE input.subType = "VENDOR_PAYMENT" ->
                Returns(<< GeneratedEntry(input.accounts.accountsPayableId, "DEBIT", input.totalAmount),
                           GeneratedEntry(input.paymentAccountId, "CREDIT", input.totalAmount) >>)
           [] input.subType = "EXPENSE_PAYMENT" ->
                IF input.expenseAccountId = NoVal
                THEN Throws("InvalidTemplateInput")
                ELSE Returns(<< GeneratedEntry(input.expenseAccountId, "DEBIT", input.totalAmount),
                                GeneratedEntry(input.paymentAccountId, "CREDIT", input.totalAmount) >>)
           [] input.subType = "OWNER_WITHDRAWAL" ->
                Returns(<< GeneratedEntry(input.accounts.ownerCapitalId, "DEBIT", input.totalAmount),
                           GeneratedEntry(input.paymentAccountId, "CREDIT", input.totalAmount) >>)
           [] OTHER -> Throws("InvalidTemplateInput")

\* Mutant of contraTemplate: the two legs of a transfer on the wrong accounts.
contraTemplateSwapped(input) ==
    CASE input.subType = "CASH_TO_BANK" ->
            Returns(<< GeneratedEntry(input.accounts.cashAccountId, "DEBIT", input.totalAmount),
                       GeneratedEntry(input.accounts.bankAccountId, "CREDIT", input.totalAmount) >>)
      [] input.subType = "BANK_TO_CASH" ->
            Returns(<< GeneratedEntry(input.accounts.bankAccountId, "DEBIT", input.totalAmount),
                       GeneratedEntry(input.accounts.cashAccountId, "CREDIT", input.totalAmount) >>)
      [] OTHER -> Throws("InvalidTemplateInput")

contraTemplate(input) ==
    CASE input.subType = "CASH_TO_BANK" ->
            Returns(<< GeneratedEntry(input.accounts.bankAccountId, "DEBIT", input.totalAmount),
                       GeneratedEntry(input.accounts.cashAccountId, "CREDIT", input.totalAmount) >>)
      [] input.subType = "BANK_TO_CASH" ->
            Returns(<< GeneratedEntry(input.accounts.cashAccountId, "DEBIT", input.totalAmount),
                       GeneratedEntry(input.accounts.bankAccountId, "CREDIT", input.totalAmount) >>)
      [] OTHER -> Throws("InvalidTemplateInput")

\* Mutant of journalTemplate: the balance of the caller's lines is not checked.
journalTemplateUnchecked(input) ==
    IF input.journalEntries = NoList
    THEN Throws("InvalidTemplateInput")
    ELSE IF Len(input.journalEntries) < MinEntries
    THEN Throws("InvalidTemplateInput")
    ELSE Returns(input.journalEntries)

journalTemplate(input) ==
    IF input.journalEntries = NoList
    THEN Throws("InvalidTemplateInput")
    ELSE IF Len(input.journalEntries) < MinEntries
    THEN Throws("InvalidTemplateInput")
    ELSE IF Abs(SumSide(input.journalEntries, "DEBIT")
                - SumSide(input.journalEntries, "CREDIT")) > Epsilon
    THEN Throws("UnbalancedEntries")
    ELSE Returns(input.journalEntries)

generateEntriesFromTemplate(input) ==
    CASE input.voucherType = "SALE"     -> saleTemplate(input)
      [] input.voucherType = "PURCHASE" -> purchaseTemplate(input)
      [] input.voucherType = "RECEIPT"  -> receiptTemplate(input)
      [] input.voucherType = "PAYMENT"  -> paymentTemplate(input)
      [] input.voucherType = "CONTRA"   -> contraTemplate(input)
      [] input.voucherType = "JOURNAL"  -> journalTemplate(input)
      [] OTHER -> Throws("InvalidTemplateInput")

\* ---------------------------------------------------------------------
\* State
\* ---------------------------------------------------------------------
VARIABLES
    vouchers,       \* Voucher table: id -> row, or NoRow
    entries,        \* Entry table, grouped by owning voucher: id -> list of rows
    created,        \* number of voucher ids handed out so far
    req,            \* per worker: the request it is serving
    outcome,        \* the response to the request that ended last
    opsStarted,     \* requests started so far
    postResults,    \* every value a successful postVoucher call has returned
    tpl,            \* the last direct call of the template engine and its result
    directory,      \* companies, account types, accounts, parties, voucher types
    report,         \* the last call of a report and what it returned
    resolved        \* every call of resolveVoucherIds so far: payload and result

vars == <<vouchers, entries, created, req, outcome, opsStarted, postResults, tpl, directory, report, resolved>>

dbVars == <<vouchers, entries, created, req, outcome, opsStarted, postResults>>

Workers == {"w1", "w2"}

VoucherIds == 1..MaxVouchers

\* findUnique returning null
NoRow == [status |-> "ABSENT"]

IsRow(voucher) == voucher.status # "ABSENT"

Company == "DEFAULT_COMPANY"

\* The account table the seed script fills: code -> role and account type
\* (one of the five operational expense accounts is kept).
Account(role, accountType) == [companyId |-> Company, role |-> role, accountType |-> accountType]

SeededAccounts ==
    [ CASH                |-> Account("CASH", "ASSET"),
      BANK                |-> Account("BANK", "ASSET"),
      ACCOUNTS_RECEIVABLE |-> Account("AR", "ASSET"),
      ACCOUNTS_PAYABLE    |-> Account("AP", "LIABILITY"),
      OWNER_CAPITAL       |-> Account("OWNER", "EQUITY"),
      SALES               |-> Account("SALES", "INCOME"),
      PURCHASE_EXPENSE    |-> Account("PURCHASE", "EXPENSE"),
      RENT_EXPENSE        |-> Account("PURCHASE", "EXPENSE") ]

\* A row of the party table, as POST /api/parties stores it.
Party(type, openingBalance, openingBalanceSide) ==
    [ companyId          |-> Company,
      type               |-> type,
      openingBalance     |-> openingBalance,
      openingBalanceSide |-> openingBalanceSide ]

\* The parties on file: one of each type.
Parties ==
    [ CustomerA |-> Party("CUSTOMER", 1, "DR"),
      SupplierX |-> Party("SUPPLIER", 1, "CR"),
      BothB     |-> Party("BOTH", 0, "DR") ]

\* Everything the store holds besides vouchers and entries.
Directory ==
    [ companies    |-> {Company},
      accountTypes |-> {"ASSET", "LIABILITY", "EQUITY", "INCOME", "EXPENSE"},
      accounts     |-> SeededAccounts,
      parties      |-> Parties,
      voucherTypes |-> VoucherType ]

\* no report has been called
NoReport == <<>>

\* The resolved payloads the routes hand to createDraftVoucher and
\* updateDraftVoucher (the value resolveVoucherIds returns).
ResolvedInput(voucherType, subType, totalAmount, paymentAccountId, journalEntries, voucherDate, narration, partyId) ==
    [ companyId        |-> Company,
      voucherTypeId    |-> voucherType,
      voucherType      |-> voucherType,
      subType          |-> subType,
      totalAmount      |-> totalAmount,
      paymentAccountId |-> paymentAccountId,
      expenseAccountId |-> NoVal,
      journalEntries   |-> journalEntries,
      narration        |-> narration,
      voucherDate      |-> voucherDate,
      partyId          |-> partyId,
      accounts         |-> ResolvedAccounts ]

DraftInputs ==
    { ResolvedInput("SALE", "CASH_SALE", MaxAmount, "CASH", NoList, 1, NoVal, NoVal),
      ResolvedInput("SALE", "CASH_SALE", 0, "CASH", NoList, 1, NoVal, NoVal),
      ResolvedInput("JOURNAL", NoVal, 0, NoVal,
                    << GeneratedEntry("CASH", "DEBIT", MaxAmount),
                       GeneratedEntry("SALES", "CREDIT", MaxAmount - 1) >>,
                    2, "adj", "SupplierX"),
      ResolvedInput("JOURNAL", NoVal, 0, NoVal,
                    << GeneratedEntry("CASH", "DEBIT", MaxAmount),
                       GeneratedEntry("BANK", "DEBIT", MaxAmount),
                       GeneratedEntry("SALES", "CREDIT", MaxAmount) >>,
                    2, NoVal, NoVal) }

\* The payloads drawn for PUT /api/vouchers/draft/:id: one that regenerates
\* (with a zero amount), one the balance test of updateDraftVoucher rejects
\* and one the template engine rejects.
UpdateInputs == { input \in DraftInputs : input.totalAmount # MaxAmount }

\* Bodies of PATCH /api/vouchers/draft/:id
PatchBody(totalAmount, narration, voucherDate, partyId) ==
    [totalAmount |-> totalAmount, narration |-> narration,
     voucherDate |-> voucherDate, partyId |-> partyId]

PatchBodies ==
    { PatchBody(2 * MaxAmount, "edited", 3, "SupplierX") }

Idle == [op |-> "none", pc |-> "idle", vid |-> 0, arg |-> NoVal, seen |-> NoVal]

Response(op, v, result, voucherNumber) ==
    [op |-> op, vid |-> v, result |-> result, voucherNumber |-> voucherNumber]

Init ==
    /\ vouchers = [v \in VoucherIds |-> NoRow]
    /\ entries = [v \in VoucherIds |-> <<>>]
    /\ created = 0
    /\ req = [p \in Workers |-> Idle]
    /\ outcome = Response("none", 0, NoVal, NoNumber)
    /\ opsStarted = 0
    /\ postResults = {}
    /\ tpl = <<>>
    /\ directory = Directory
    /\ report = NoReport
    /\ resolved = {}

\* ---------------------------------------------------------------------
\* Store helpers
\* ---------------------------------------------------------------------
\* Entry rows get fresh ids; an id is <<voucher, generation, position>>.
NextGen(v) == IF entries[v] = <<>> THEN 1 ELSE entries[v][1].id[2] + 1

\* Mutant of EntryRows: the last generated entry is not stored.
EntryRowsButLast(v, gen, generated) ==
    [i \in 1..(Len(generated) - 1) |->
        [id        |-> <<v, gen, i>>,
         accountId |-> generated[i].accountId,
         side      |-> generated[i].side,
         amount    |-> generated[i].amount]]

EntryRows(v, gen, generated) ==
    [i \in 1..Len(generated) |->
        [id        |-> <<v, gen, i>>,
         accountId |-> generated[i].accountId,
         side      |-> generated[i].side,
         amount    |-> generated[i].amount]]

EntryIds(rows) == {rows[i].id : i \in 1..Len(rows)}

Started(op, v, arg, seen) ==
    [op |-> op, pc |-> "tx", vid |-> v, arg |-> arg, seen |-> seen]

CanStart(p) == req[p].pc = "idle" /\ opsStarted < MaxOps

\* The request of worker p goes on to its transaction.
Begins(p, r) ==
    /\ req' = [req EXCEPT ![p] = r]
    /\ UNCHANGED outcome

\* The request of worker p ends with a response; reqs is req after the
\* effect of its commit, if any, on the other requests in flight.
Ends(p, reqs, op, v, result, voucherNumber) ==
    /\ req' = [reqs EXCEPT ![p] = Idle]
    /\ outcome' = Response(op, v, result, voucherNumber)

Fails(p, op, v, error) == Ends(p, req, op, v, error, NoNumber)

\* A SERIALIZABLE postVoucher transaction that is in flight must fail when
\* another transaction commits a write to the voucher row it read, or when
\* another postVoucher commits into the series whose maximum it read.
NoSeries == <<>>

Conflicts(r, v, series) ==
    /\ r.op = "postVoucher"
    /\ r.pc = "tx"
    /\ \/ r.vid = v
       \/ series # NoSeries /\ r.seen.series = series

\* Mutant of Doom: a commit aborts no transaction in flight.
DoomNobody(p, v, series) == req

Doom(p, v, series) ==
    [q \in Workers |->
        IF q # p /\ Conflicts(req[q], v, series)
        THEN [req[q] EXCEPT !.seen.doomed = TRUE]
        ELSE req[q]]

\* ---------------------------------------------------------------------
\* createDraftVoucher: one READ COMMITTED transaction.  Its first statement
\* inserts the header; the row stays private to the transaction (it is kept
\* in the request, not in the table) while the entries are generated,
\* checked and inserted, and header and entries reach the tables together
\* at the commit.  A statement that fails, or a transaction that is
\* abandoned, rolls everything back.
\* ---------------------------------------------------------------------
createBalanced(generated) ==
    ~ (Abs(SumSide(generated, "DEBIT") - SumSide(generated, "CREDIT")) > Epsilon)

NewVoucher(input) ==
    [ companyId     |-> input.companyId,
      voucherTypeId |-> input.voucherTypeId,
      status        |-> "DRAFT",
      voucherDate   |-> input.voucherDate,
      narration     |-> input.narration,
      partyId       |-> input.partyId,
      subType       |-> input.subType,
      voucherNumber |-> NoNumber ]

\* what generateEntriesFromTemplate is called with (subType ?? "")
createTemplateInput(input) ==
    [input EXCEPT !.subType = IF input.subType = NoVal THEN "" ELSE input.subType]

\* Mutant of createDraftVoucherHeader: the header is inserted outside the
\* transaction, so it is in the table at once.
createDraftVoucherHeaderAutocommit(p, input) ==
    /\ CanStart(p)
    /\ created < MaxVouchers
    /\ opsStarted' = opsStarted + 1
    /\ created' = created + 1
    /\ vouchers' = [vouchers EXCEPT ![created + 1] = NewVoucher(input)]
    /\ Begins(p, Started("createDraft", created + 1, input, NewVoucher(input)))
    /\ UNCHANGED <<entries, postResults, tpl, directory, report, resolved>>

createDraftVoucherHeader(p, input) ==
    /\ CanStart(p)
    /\ created < MaxVouchers
    /\ opsStarted' = opsStarted + 1
    /\ created' = created + 1
    /\ Begins(p, Started("createDraft", created + 1, input, NewVoucher(input)))
    /\ UNCHANGED <<vouchers, entries, postResults, tpl, directory, report, resolved>>

\* Mutant of createDraftVoucherEntries: an error thrown by the template
\* engine is swallowed and the voucher is stored with the entries obtained.
createDraftVoucherEntriesSwallows(p) ==
    /\ req[p].op = "createDraft"
    /\ req[p].pc = "tx"
    /\ LET v == req[p].vid
           gen == generateEntriesFromTemplate(createTemplateInput(req[p].arg))
       IN  IF ~ createBalanced(gen.entries)
           THEN /\ Fails(p, "createDraft", v, "UnbalancedEntries")
                /\ UNCHANGED <<vouchers, entries>>
           ELSE /\ vouchers' = [vouchers EXCEPT ![v] = req[p].seen]
                /\ entries' = [entries EXCEPT ![v] = EntryRows(v, 1, gen.entries)]
                /\ Ends(p, req, "createDraft", v, "ok", NoNumber)
    /\ UNCHANGED <<created, opsStarted, postResults, tpl, directory, report, resolved>>

\* Mutant of createDraftVoucherEntries: the party the voucher names is
\* written back to the party table with a cleared opening balance.
createDraftVoucherEntriesTouchesParty(p) ==
    /\ req[p].op = "createDraft"
    /\ req[p].pc = "tx"
    /\ LET v == req[p].vid
           gen == generateEntriesFromTemplate(createTemplateInput(req[p].arg))
       IN  IF ~ gen.ok
           THEN /\ Fails(p, "createDraft", v, gen.error)
                /\ UNCHANGED <<vouchers, entries, directory>>
           ELSE IF ~ createBalanced(gen.entries)
           THEN /\ Fails(p, "createDraft", v, "UnbalancedEntries")
                /\ UNCHANGED <<vouchers, entries, directory>>
           ELSE /\ vouchers' = [vouchers EXCEPT ![v] = req[p].seen]
                /\ entries' = [entries EXCEPT ![v] = EntryRows(v, 1, gen.entries)]
                /\ directory' = IF req[p].arg.partyId = NoVal THEN directory
                                ELSE [directory EXCEPT !.parties[req[p].arg.partyId].openingBalance = 0]
                /\ Ends(p, req, "createDraft", v, "ok", NoNumber)
    /\ UNCHANGED <<created, opsStarted, postResults, tpl, report, resolved>>

createDraftVoucherEntries(p) ==
    /\ req[p].op = "createDraft"
    /\ req[p].pc = "tx"
    /\ LET v == req[p].vid
           gen == generateEntriesFromTemplate(createTemplateInput(req[p].arg))
       IN  IF ~ gen.ok
           THEN /\ Fails(p, "createDraft", v, gen.error)
                /\ UNCHANGED <<vouchers, entries>>
           ELSE IF ~ createBalanced(gen.entries)
           THEN /\ Fails(p, "createDraft", v, "UnbalancedEntries")
                /\ UNCHANGED <<vouchers, entries>>
           ELSE /\ vouchers' = [vouchers EXCEPT ![v] = req[p].seen]
                /\ entries' = [entries EXCEPT ![v] = EntryRows(v, 1, gen.entries)]
                /\ Ends(p, req, "createDraft", v, "ok", NoNumber)
    /\ UNCHANGED <<created, opsStarted, postResults, tpl, directory, report, resolved>>

\* tx.entry.create rejects (a line names no existing account), or the
\* transaction is abandoned: it rolls back and the call throws.
createDraftVoucherAbort(p) ==
    /\ req[p].op = "createDraft"
    /\ req[p].pc = "tx"
    /\ Fails(p, "createDraft", req[p].vid, "Aborted")
    /\ UNCHANGED <<vouchers, entries, created, opsStarted, postResults, tpl, directory, report, resolved>>

\* ---------------------------------------------------------------------
\* postVoucher: one SERIALIZABLE transaction.  Every read of it sees the
\* snapshot taken by its first query, so the reads are one step; the
\* UPDATE and the commit are the second.  prisma.$transaction is called
\* once per request and the route hands its error to the error handler:
\* a request makes one attempt (attempts), whatever the error.
\* ---------------------------------------------------------------------
AllPositive(rows) == \A i \in 1..Len(rows) : rows[i].amount > 0

\* findFirst({where: {companyId, voucherTypeId, status: "POSTED"},
\*            orderBy: {voucherNumber: "desc"}})?.voucherNumber ?? 0
lastPosted(companyId, voucherTypeId) ==
    LET nums == { vouchers[w].voucherNumber : w \in
                    { x \in VoucherIds : /\ IsRow(vouchers[x])
                                         /\ vouchers[x].companyId = companyId
                                         /\ vouchers[x].voucherTypeId = voucherTypeId
                                         /\ vouchers[x].status = "POSTED" } }
    IN  IF nums = {} THEN 0 ELSE CHOOSE n \in nums : \A m \in nums : m <= n

\* Mutant of postValidate: the status of the voucher is not checked.
postValidateAnyStatus(voucher, rows) ==
    IF ~ IsRow(voucher) THEN "NotFound"
    ELSE IF Len(rows) < MinEntries THEN "UnbalancedEntries"
    ELSE IF ~ AllPositive(rows) THEN "UnbalancedEntries"
    ELSE IF SumSide(rows, "DEBIT") # SumSide(rows, "CREDIT") THEN "UnbalancedEntries"
    ELSE "ok"

\* Mutant of postValidate: the entry amounts are not checked.
postValidateAnyAmount(voucher, rows) ==
    IF ~ IsRow(voucher) THEN "NotFound"
    ELSE IF voucher.status # "DRAFT" THEN "InvalidState"
    ELSE IF Len(rows) < MinEntries THEN "UnbalancedEntries"
    ELSE IF SumSide(rows, "DEBIT") # SumSide(rows, "CREDIT") THEN "UnbalancedEntries"
    ELSE "ok"

\* Mutant of postValidate: debits are not compared with credits.
postValidateAnyTotals(voucher, rows) ==
    IF ~ IsRow(voucher) THEN "NotFound"
    ELSE IF voucher.status # "DRAFT" THEN "InvalidState"
    ELSE IF Len(rows) < MinEntries THEN "UnbalancedEntries"
    ELSE IF ~ AllPositive(rows) THEN "UnbalancedEntries"
    ELSE "ok"

postValidate(voucher, rows) ==
    IF ~ IsRow(voucher) THEN "NotFound"
    ELSE IF voucher.status # "DRAFT" THEN "InvalidState"
    ELSE IF Len(rows) < MinEntries THEN "UnbalancedEntries"
    ELSE IF ~ AllPositive(rows) THEN "UnbalancedEntries"
    ELSE IF SumSide(rows, "DEBIT") # SumSide(rows, "CREDIT") THEN "UnbalancedEntries"
    ELSE "ok"

\* Mutant of PostedRow: the status is set and the number is left null.
PostedRowStatusOnly(voucher, nextVoucherNumber) ==
    [voucher EXCEPT !.status = "POSTED"]

PostedRow(voucher, nextVoucherNumber) ==
    [voucher EXCEPT !.status = "POSTED", !.voucherNumber = nextVoucherNumber]

postVoucherRead(p, v) ==
    /\ CanStart(p)
    /\ opsStarted' = opsStarted + 1
    /\ LET verdict == postValidate(vouchers[v], entries[v])
       IN  IF verdict # "ok"
           THEN Fails(p, "postVoucher", v, verdict)
           ELSE Begins(p, Started("postVoucher", v, NoVal,
                          [ series |-> <<vouchers[v].companyId, vouchers[v].voucherTypeId>>,
                            nextVoucherNumber |->
                                lastPosted(vouchers[v].companyId, vouchers[v].voucherTypeId) + 1,
                            doomed |-> FALSE,
                            attempts |-> 1 ]))
    /\ UNCHANGED <<vouchers, entries, created, postResults, tpl, directory, report, resolved>>

postVoucherWrite(p) ==
    /\ req[p].op = "postVoucher"
    /\ req[p].pc = "tx"
    /\ LET v == req[p].vid
           n == req[p].seen.nextVoucherNumber
       IN  IF req[p].seen.doomed
           THEN /\ Fails(p, "postVoucher", v, "SerializationConflict")
                /\ UNCHANGED <<vouchers, postResults>>
           ELSE /\ vouchers' = [vouchers EXCEPT ![v] = PostedRow(@, n)]
                /\ Ends(p, Doom(p, v, req[p].seen.series), "postVoucher", v, "ok", n)
                /\ postResults' = postResults \cup
                        {[voucherId |-> v, series |-> req[p].seen.series, voucherNumber |-> n]}
    /\ UNCHANGED <<entries, created, opsStarted, tpl, directory, report, resolved>>

\* ---------------------------------------------------------------------
\* updateDraftVoucher: one READ COMMITTED transaction.  Its findUnique is
\* one step; its writes stay invisible until the commit, so the
\* deleteMany, the header update, the inserts and the commit are the other.
\* ---------------------------------------------------------------------
\* Mutant of updateGuard: any existing voucher may be regenerated.
updateGuardAnyStatus(voucher) ==
    IF ~ IsRow(voucher) THEN "NotFound" ELSE "ok"

updateGuard(voucher) ==
    IF ~ IsRow(voucher) THEN "NotFound"
    ELSE IF voucher.status # "DRAFT" THEN "InvalidState"
    ELSE "ok"

updateBalanced(generated) ==
    SumSide(generated, "DEBIT") = SumSide(generated, "CREDIT")

UpdatedRow(voucher, input) ==
    [voucher EXCEPT !.voucherDate = input.voucherDate, !.narration = input.narration]

updateDraftVoucherRead(p, v, input) ==
    /\ CanStart(p)
    /\ opsStarted' = opsStarted + 1
    /\ LET verdict == updateGuard(vouchers[v])
       IN  IF verdict # "ok"
           THEN Fails(p, "updateDraft", v, verdict)
           ELSE Begins(p, Started("updateDraft", v, input, NoVal))
    /\ UNCHANGED <<vouchers, entries, created, postResults, tpl, directory, report, resolved>>

\* Mutant of updateDraftVoucherWrite: the statements run outside a
\* transaction, so a failure leaves the deletion and the header update done.
updateDraftVoucherWriteNoRollback(p) ==
    /\ req[p].op = "updateDraft"
    /\ req[p].pc = "tx"
    /\ LET v == req[p].vid
           input == req[p].arg
           gen == generateEntriesFromTemplate(input)
       IN  IF ~ IsRow(vouchers[v])
           THEN /\ Fails(p, "updateDraft", v, "RecordNotFound")
                /\ UNCHANGED <<vouchers, entries>>
           ELSE IF ~ gen.ok
           THEN /\ Fails(p, "updateDraft", v, gen.error)
                /\ vouchers' = [vouchers EXCEPT ![v] = UpdatedRow(@, input)]
                /\ entries' = [entries EXCEPT ![v] = <<>>]
           ELSE IF ~ updateBalanced(gen.entries)
           THEN /\ Fails(p, "updateDraft", v, "UnbalancedEntries")
                /\ vouchers' = [vouchers EXCEPT ![v] = UpdatedRow(@, input)]
                /\ entries' = [entries EXCEPT ![v] = <<>>]
           ELSE /\ vouchers' = [vouchers EXCEPT ![v] = UpdatedRow(@, input)]
                /\ entries' = [entries EXCEPT ![v] = EntryRows(v, NextGen(v), gen.entries)]
                /\ Ends(p, Doom(p, v, NoSeries), "updateDraft", v, "ok", NoNumber)
    /\ UNCHANGED <<created, opsStarted, postResults, tpl, directory, report, resolved>>

updateDraftVoucherWrite(p) ==
    /\ req[p].op = "updateDraft"
    /\ req[p].pc = "tx"
    /\ LET v == req[p].vid
           input == req[p].arg
           gen == generateEntriesFromTemplate(input)
       IN  IF ~ IsRow(vouchers[v])
           THEN \* tx.voucher.update finds no row to update: the transaction rolls back
                /\ Fails(p, "updateDraft", v, "RecordNotFound")
                /\ UNCHANGED <<vouchers, entries>>
           ELSE IF ~ gen.ok
           THEN /\ Fails(p, "updateDraft", v, gen.error)
                /\ UNCHANGED <<vouchers, entries>>
           ELSE IF ~ updateBalanced(gen.entries)
           THEN /\ Fails(p, "updateDraft", v, "UnbalancedEntries")
                /\ UNCHANGED <<vouchers, entries>>
           ELSE /\ vouchers' = [vouchers EXCEPT ![v] = UpdatedRow(@, input)]
                /\ entries' = [entries EXCEPT ![v] = EntryRows(v, NextGen(v), gen.entries)]
                /\ Ends(p, Doom(p, v, NoSeries), "updateDraft", v, "ok", NoNumber)
    /\ UNCHANGED <<created, opsStarted, postResults, tpl, directory, report, resolved>>

\* ---------------------------------------------------------------------
\* deleteDraftVoucher: one READ COMMITTED transaction, read then writes.
\* ---------------------------------------------------------------------
deleteGuard(voucher) ==
    IF ~ IsRow(voucher) THEN "NotFound"
    ELSE IF voucher.status # "DRAFT" THEN "InvalidState"
    ELSE "ok"

deleteDraftVoucherRead(p, v) ==
    /\ CanStart(p)
    /\ opsStarted' = opsStarted + 1
    /\ LET verdict == deleteGuard(vouchers[v])
       IN  IF verdict # "ok"
           THEN Fails(p, "deleteDraft", v, verdict)
           ELSE Begins(p, Started("deleteDraft", v, NoVal, NoVal))
    /\ UNCHANGED <<vouchers, entries, created, postResults, tpl, directory, report, resolved>>

\* Mutant of deleteDraftVoucherWrite: the header is deleted, the entries stay.
deleteDraftVoucherWriteHeaderOnly(p) ==
    /\ req[p].op = "deleteDraft"
    /\ req[p].pc = "tx"
    /\ LET v == req[p].vid
       IN  IF ~ IsRow(vouchers[v])
           THEN /\ Fails(p, "deleteDraft", v, "RecordNotFound")
                /\ UNCHANGED <<vouchers, entries>>
           ELSE /\ vouchers' = [vouchers EXCEPT ![v] = NoRow]
                /\ UNCHANGED entries
                /\ Ends(p, Doom(p, v, NoSeries), "deleteDraft", v, "ok", NoNumber)
    /\ UNCHANGED <<created, opsStarted, postResults, tpl, directory, report, resolved>>

deleteDraftVoucherWrite(p) ==
    /\ req[p].op = "deleteDraft"
    /\ req[p].pc = "tx"
    /\ LET v == req[p].vid
       IN  IF ~ IsRow(vouchers[v])
           THEN \* tx.voucher.delete finds no row to delete: the transaction rolls back
                /\ Fails(p, "deleteDraft", v, "RecordNotFound")
                /\ UNCHANGED <<vouchers, entries>>
           ELSE /\ vouchers' = [vouchers EXCEPT ![v] = NoRow]
                /\ entries' = [entries EXCEPT ![v] = <<>>]
                /\ Ends(p, Doom(p, v, NoSeries), "deleteDraft", v, "ok", NoNumber)
    /\ UNCHANGED <<created, opsStarted, postResults, tpl, directory, report, resolved>>

\* ---------------------------------------------------------------------
\* PATCH /api/vouchers/draft/:id: the voucher and its entries are read
\* outside the transaction; the transaction then updates the header and
\* rescales the entries it read.
\* ---------------------------------------------------------------------
patchGuard(voucher) ==
    IF ~ IsRow(voucher) THEN "NotFound"
    ELSE IF voucher.status # "DRAFT" THEN "InvalidState"
    ELSE "ok"

\* Number(entry.amount) * (newAmount / oldDebitTotal); the bodies drawn
\* keep the quotient exact
scaleAmount(amount, newAmount, oldDebitTotal) ==
    (amount * newAmount) \div oldDebitTotal

patchHeader(voucher, body) ==
    [voucher EXCEPT
        !.voucherDate = IF body.voucherDate # NoDate THEN body.voucherDate ELSE @,
        !.narration   = IF body.narration # NoVal THEN body.narration ELSE @,
        !.partyId     = IF body.partyId # NoVal THEN body.partyId ELSE @]

patchScales(existing, newAmount) ==
    newAmount # NoAmount /\ SumSide(existing, "DEBIT") > 0

patchEntries(current, existing, newAmount) ==
    IF patchScales(existing, newAmount)
    THEN [i \in 1..Len(current) |->
            [current[i] EXCEPT !.amount =
                scaleAmount(existing[i].amount, newAmount, SumSide(existing, "DEBIT"))]]
    ELSE current

patchDraftRead(p, v, body) ==
    /\ CanStart(p)
    /\ opsStarted' = opsStarted + 1
    /\ LET verdict == patchGuard(vouchers[v])
       IN  IF verdict # "ok"
           THEN Fails(p, "patchDraft", v, verdict)
           ELSE Begins(p, Started("patchDraft", v, body, entries[v]))
    /\ UNCHANGED <<vouchers, entries, created, postResults, tpl, directory, report, resolved>>

patchDraftWrite(p) ==
    /\ req[p].op = "patchDraft"
    /\ req[p].pc = "tx"
    /\ LET v == req[p].vid
           body == req[p].arg
           existing == req[p].seen
       IN  IF \/ ~ IsRow(vouchers[v])
              \/ /\ patchScales(existing, body.totalAmount)
                 /\ EntryIds(existing) # EntryIds(entries[v])
           THEN \* an update finds no row: the transaction rolls back
                /\ Fails(p, "patchDraft", v, "RecordNotFound")
                /\ UNCHANGED <<vouchers, entries>>
           ELSE /\ vouchers' = [vouchers EXCEPT ![v] = patchHeader(@, body)]
                /\ entries' = [entries EXCEPT ![v] = patchEntries(@, existing, body.totalAmount)]
                /\ Ends(p, Doom(p, v, NoSeries), "patchDraft", v, "ok", NoNumber)
    /\ UNCHANGED <<created, opsStarted, postResults, tpl, directory, report, resolved>>

\* ---------------------------------------------------------------------
\* Specification of the ledger engine
\* ---------------------------------------------------------------------
Next ==
    \/ \E p \in Workers, input \in DraftInputs : createDraftVoucherHeader(p, input)
    \/ \E p \in Workers : createDraftVoucherEntries(p)
    \/ \E p \in Workers : createDraftVoucherAbort(p)
    \/ \E p \in Workers, v \in VoucherIds, input \in UpdateInputs : updateDraftVoucherRead(p, v, input)
    \/ \E p \in Workers : updateDraftVoucherWrite(p)
    \/ \E p \in Workers, v \in VoucherIds, body \in PatchBodies : patchDraftRead(p, v, body)
    \/ \E p \in Workers : patchDraftWrite(p)
    \/ \E p \in Workers, v \in VoucherIds : deleteDraftVoucherRead(p, v)
    \/ \E p \in Workers : deleteDraftVoucherWrite(p)
    \/ \E p \in Workers, v \in VoucherIds : postVoucherRead(p, v)
    \/ \E p \in Workers : postVoucherWrite(p)

Spec == Init /\ [][Next]_vars

\* ---------------------------------------------------------------------
\* Specification of the template engine alone: every action is one call
\* of generateEntriesFromTemplate on an input drawn from TemplateInputs.
\* ---------------------------------------------------------------------
SubTypes ==
    { "CASH_SALE", "CREDIT_SALE", "CASH_PURCHASE", "CREDIT_PURCHASE",
      "VENDOR_PAYMENT", "EXPENSE_PAYMENT", "OWNER_WITHDRAWAL",
      "CASH_TO_BANK", "BANK_TO_CASH", "RECEIPT", "" }

JournalLines ==
    { GeneratedEntry(a, side, amount) :
        a \in {"CASH"}, side \in Sides, amount \in 0..MaxAmount }

RECURSIVE ListsUpTo(_, _)
ListsUpTo(S, n) ==
    IF n = 0 THEN { <<>> }
    ELSE LET shorter == ListsUpTo(S, n - 1)
         IN  shorter \cup { Append(l, x) : l \in { m \in shorter : Len(m) = n - 1 }, x \in S }

TemplateInput(voucherType, subType, totalAmount, paymentAccountId, expenseAccountId, journalEntries) ==
    [ voucherType      |-> voucherType,
      subType          |-> subType,
      totalAmount      |-> totalAmount,
      paymentAccountId |-> paymentAccountId,
      expenseAccountId |-> expenseAccountId,
      journalEntries   |-> journalEntries,
      accounts         |-> ResolvedAccounts ]

TemplateInputs ==
    { TemplateInput(t, st, amount, pay, exp, NoList) :
        t \in (VoucherType \ {"JOURNAL"}) \cup {"OTHER"}, st \in SubTypes,
        amount \in 0..MaxAmount, pay \in {NoVal, "CASH", "BANK"},
        exp \in {NoVal, "RENT_EXPENSE"} }
    \cup
    { TemplateInput("JOURNAL", "", 0, NoVal, NoVal, l) :
        l \in ListsUpTo(JournalLines, MaxJournalLen) \cup {NoList} }

TemplateCalled == tpl # <<>>
TemplateIn == tpl[1]
TemplateOut == tpl[2]

templateCall(input) ==
    /\ ~ TemplateCalled
    /\ tpl' = <<input, generateEntriesFromTemplate(input)>>
    /\ UNCHANGED <<dbVars, directory, report, resolved>>

TemplateNext == \E input \in TemplateInputs : templateCall(input)

TemplateSpec == Init /\ [][TemplateNext]_vars

\* ---------------------------------------------------------------------
\* Balance derivation: the reports.  A Date is an instant; instants are
\* counted in half days, so instant t lies in day t \div TicksPerDay (days
\* of the server's time zone).  Voucher ids are handed out in the order
\* the headers are inserted, so the order of the ids is the order of
\* createdAt.  The statements of one report call are taken to read the
\* same committed state, store.
\* ---------------------------------------------------------------------
TicksPerDay == 2

\* the committed state a report reads
Store == [vouchers |-> vouchers, entries |-> entries, directory |-> directory]

\* end.setHours(23, 59, 59, 999): the last instant of the day of date
EndOfDay(date) == (date \div TicksPerDay) * TicksPerDay + (TicksPerDay - 1)

\* voucherDate: { gte: fromDate, lte: end of day of toDate }, each bound
\* only when it is given
InWindow(date, fromDate, toDate) ==
    /\ fromDate = NoDate \/ date >= fromDate
    /\ toDate = NoDate \/ date <= EndOfDay(toDate)

\* Mutant of PostedVouchers: the status filter is dropped.
PostedVouchersAnyStatus(store) ==
    { v \in VoucherIds : /\ IsRow(store.vouchers[v])
                         /\ store.vouchers[v].companyId = Company }

\* voucher: { companyId, status: "POSTED" }
PostedVouchers(store) ==
    { v \in VoucherIds : /\ IsRow(store.vouchers[v])
                         /\ store.vouchers[v].companyId = Company
                         /\ store.vouchers[v].status = "POSTED" }

\* prisma.account.findFirst({ where: { companyId, role } })
AccountWithRole(store, role) ==
    LET found == { a \in DOMAIN store.directory.accounts : store.directory.accounts[a].role = role }
    IN  IF found = {} THEN NoVal ELSE CHOOSE a \in found : TRUE

\* the entries of the vouchers vs, voucher after voucher
RECURSIVE EntriesOfVouchers(_, _)
EntriesOfVouchers(store, vs) ==
    IF vs = {} THEN <<>>
    ELSE LET v == CHOOSE x \in vs : \A y \in vs : x <= y
         IN  store.entries[v] \o EntriesOfVouchers(store, vs \ {v})

OnAccount(rows, accountId) == SelectSeq(rows, LAMBDA e : e.accountId = accountId)

\* reduce((sum, e) => e.side === "DEBIT" ? sum + amount : sum - amount, 0)
Signed(rows) == SumSide(rows, "DEBIT") - SumSide(rows, "CREDIT")

BalanceSide(n) == IF n >= 0 THEN "DR" ELSE "CR"

\* step 2 of getAccountBook
bookOpening(store, accountId, fromDate) ==
    IF fromDate = NoDate THEN 0
    ELSE Signed(OnAccount(EntriesOfVouchers(store,
            { v \in PostedVouchers(store) : store.vouchers[v].voucherDate < fromDate }), accountId))

\* Mutant of FirstInBook: the rows are ordered by creation alone.
FirstInBookByCreation(store, vs) ==
    CHOOSE x \in vs : \A y \in vs : x <= y

\* orderBy: [{ voucher: { voucherDate: "asc" } }, { voucher: { createdAt: "asc" } }]
FirstInBook(store, vs) ==
    CHOOSE x \in vs : \A y \in vs :
        \/ store.vouchers[x].voucherDate < store.vouchers[y].voucherDate
        \/ store.vouchers[x].voucherDate = store.vouchers[y].voucherDate /\ x <= y

\* step 3 of getAccountBook: the entries of the vouchers vs on the account,
\* in the order of the query.  The query does not order the entries of one
\* voucher: tie says whether they come as inserted or reversed.
RECURSIVE bookEntries(_, _, _, _)
bookEntries(store, vs, accountId, tie) ==
    IF vs = {} THEN <<>>
    ELSE LET v == FirstInBook(store, vs)
             own == OnAccount(store.entries[v], accountId)
         IN  [i \in 1..Len(own) |->
                [ voucherId |-> v,
                  date      |-> store.vouchers[v].voucherDate,
                  entry     |-> IF tie = "asc" THEN own[i] ELSE own[Len(own) + 1 - i] ]]
             \o bookEntries(store, vs \ {v}, accountId, tie)

\* Mutant of bookTransactions: a row shows the balance before its entry.
RECURSIVE bookTransactionsBalanceBefore(_, _)
bookTransactionsBalanceBefore(lines, running) ==
    IF lines = <<>> THEN <<>>
    ELSE LET e == Head(lines).entry
             debit == IF e.side = "DEBIT" THEN e.amount ELSE 0
             credit == IF e.side = "CREDIT" THEN e.amount ELSE 0
             next == running + debit - credit
         IN  << [ date        |-> Head(lines).date,
                  voucherId   |-> Head(lines).voucherId,
                  entryId     |-> e.id,
                  debit       |-> debit,
                  credit      |-> credit,
                  balance     |-> Abs(running),
                  balanceSide |-> BalanceSide(running) ] >>
             \o bookTransactionsBalanceBefore(Tail(lines), next)

\* step 4 of getAccountBook: the rows, each with the running balance
RECURSIVE bookTransactions(_, _)
bookTransactions(lines, running) ==
    IF lines = <<>> THEN <<>>
    ELSE LET e == Head(lines).entry
             debit == IF e.side = "DEBIT" THEN e.amount ELSE 0
             credit == IF e.side = "CREDIT" THEN e.amount ELSE 0
             next == running + debit - credit
         IN  << [ date        |-> Head(lines).date,
                  voucherId   |-> Head(lines).voucherId,
                  entryId     |-> e.id,
                  debit       |-> debit,
                  credit      |-> credit,
                  balance     |-> Abs(next),
                  balanceSide |-> BalanceSide(next) ] >>
             \o bookTransactions(Tail(lines), next)

\* runningSignedBalance after the rows
RECURSIVE bookRunning(_, _)
bookRunning(lines, running) ==
    IF lines = <<>> THEN running
    ELSE bookRunning(Tail(lines),
            running + (IF Head(lines).entry.side = "DEBIT" THEN Head(lines).entry.amount ELSE 0)
                    - (IF Head(lines).entry.side = "CREDIT" THEN Head(lines).entry.amount ELSE 0))

RECURSIVE SumField(_, _)
SumField(rows, field) ==
    IF rows = <<>> THEN 0 ELSE Head(rows)[field] + SumField(Tail(rows), field)

getAccountBook(store, role, fromDate, toDate, tie) ==
    LET accountId == AccountWithRole(store, role)
        opening == bookOpening(store, accountId, fromDate)
        lines == bookEntries(store, { v \in PostedVouchers(store) :
                                InWindow(store.vouchers[v].voucherDate, fromDate, toDate) },
                             accountId, tie)
        transactions == bookTransactions(lines, opening)
        closing == bookRunning(lines, opening)
    IN  IF accountId = NoVal
        THEN [ok |-> FALSE, error |-> "NoAccount"]
        ELSE [ ok                 |-> TRUE,
               accountId          |-> accountId,
               openingBalance     |-> Abs(opening),
               openingBalanceSide |-> BalanceSide(opening),
               transactions       |-> transactions,
               totalDebit         |-> SumField(transactions, "debit"),
               totalCredit        |-> SumField(transactions, "credit"),
               closingBalance     |-> Abs(closing),
               closingBalanceSide |-> BalanceSide(closing) ]

\* getProfitAndLoss: per INCOME account credit - debit, per EXPENSE account
\* debit - credit, over the entries whose voucher is POSTED and dated in
\* the window; the rows are kept as account -> amount.
RECURSIVE SumAmounts(_, _)
SumAmounts(rows, accounts) ==
    IF accounts = {} THEN 0
    ELSE LET a == CHOOSE x \in accounts : TRUE
         IN  rows[a] + SumAmounts(rows, accounts \ {a})

AccountsOfType(store, accountType) ==
    { a \in DOMAIN store.directory.accounts :
        /\ store.directory.accounts[a].companyId = Company
        /\ store.directory.accounts[a].accountType = accountType }

\* Mutant of PostedInWindow: the upper bound is the instant given, not the
\* end of its day.
PostedInWindowToInstant(store, fromDate, toDate) ==
    { v \in VoucherIds : /\ IsRow(store.vouchers[v])
                         /\ store.vouchers[v].status = "POSTED"
                         /\ fromDate = NoDate \/ store.vouchers[v].voucherDate >= fromDate
                         /\ toDate = NoDate \/ store.vouchers[v].voucherDate <= toDate }

\* voucher: { voucherDate: { gte, lte }, status: "POSTED" }
PostedInWindow(store, fromDate, toDate) ==
    { v \in VoucherIds : /\ IsRow(store.vouchers[v])
                         /\ store.vouchers[v].status = "POSTED"
                         /\ InWindow(store.vouchers[v].voucherDate, fromDate, toDate) }

\* raw: the POSTED entries of the window, grouped by account and side
profitAndLossAmount(store, raw, accountId) ==
    LET rows == OnAccount(raw, accountId)
        debit == SumSide(rows, "DEBIT")
        credit == SumSide(rows, "CREDIT")
    IN  IF store.directory.accounts[accountId].accountType = "INCOME"
        THEN credit - debit
        ELSE debit - credit

getProfitAndLoss(store, fromDate, toDate) ==
    LET raw == EntriesOfVouchers(store, PostedInWindow(store, fromDate, toDate))
        income == [a \in AccountsOfType(store, "INCOME") |-> profitAndLossAmount(store, raw, a)]
        expenses == [a \in AccountsOfType(store, "EXPENSE") |-> profitAndLossAmount(store, raw, a)]
        totalIncome == SumAmounts(income, DOMAIN income)
        totalExpenses == SumAmounts(expenses, DOMAIN expenses)
    IN  [ ok            |-> TRUE,
          income        |-> income,
          expenses      |-> expenses,
          totalIncome   |-> totalIncome,
          totalExpenses |-> totalExpenses,
          netProfit     |-> totalIncome - totalExpenses ]

\* getTrialBalance: per account that has POSTED entries, the sum of its
\* POSTED debits and of its POSTED credits, over all dates or within the
\* window.
getTrialBalance(store, fromDate, toDate) ==
    LET posted == EntriesOfVouchers(store, PostedInWindow(store, fromDate, toDate))
    IN  [a \in { posted[i].accountId : i \in 1..Len(posted) } |->
            [ debit  |-> SumSide(OnAccount(posted, a), "DEBIT"),
              credit |-> SumSide(OnAccount(posted, a), "CREDIT") ]]

RECURSIVE SumColumn(_, _, _)
SumColumn(rows, accounts, column) ==
    IF accounts = {} THEN 0
    ELSE LET a == CHOOSE x \in accounts : TRUE
         IN  rows[a][column] + SumColumn(rows, accounts \ {a}, column)

\* GET /api/reports/trial-balance
trialBalance(store, fromDate, toDate) ==
    LET rows == getTrialBalance(store, fromDate, toDate)
        totalDebit == SumColumn(rows, DOMAIN rows, "debit")
        totalCredit == SumColumn(rows, DOMAIN rows, "credit")
    IN  [ ok          |-> TRUE,
          rows        |-> rows,
          totalDebit  |-> totalDebit,
          totalCredit |-> totalCredit,
          isBalanced  |-> totalDebit = totalCredit ]

\* GET /api/reports/party-ledger.  The voucher query names companyId, which
\* the handler does not declare: evaluating its argument throws, and the
\* handler passes the error on.
partyLedger(store, partyId, fromDate, toDate) ==
    IF partyId = NoVal THEN [ok |-> FALSE, error |-> "BadRequest"]
    ELSE IF partyId \notin DOMAIN store.directory.parties THEN [ok |-> FALSE, error |-> "NotFound"]
    ELSE [ok |-> FALSE, error |-> "ReferenceError"]

PartiesOfType(store, types) ==
    { p \in DOMAIN store.directory.parties :
        /\ store.directory.parties[p].companyId = Company
        /\ store.directory.parties[p].type \in types }

\* voucher: { partyId: party.id, status: "POSTED" }
PostedOfParty(store, partyId) ==
    { v \in VoucherIds : /\ IsRow(store.vouchers[v])
                         /\ store.vouchers[v].partyId = partyId
                         /\ store.vouchers[v].status = "POSTED" }

\* GET /api/reports/receivables
receivables(store) ==
    LET arAccount == AccountWithRole(store, "AR")
        net(p) == (IF store.directory.parties[p].openingBalanceSide = "DR"
                   THEN store.directory.parties[p].openingBalance
                   ELSE - store.directory.parties[p].openingBalance)
                  + Signed(OnAccount(EntriesOfVouchers(store, PostedOfParty(store, p)), arAccount))
        result == { [ partyId     |-> p,
                      balance     |-> Abs(net(p)),
                      balanceSide |-> IF net(p) >= 0 THEN "DR" ELSE "CR" ] :
                    p \in PartiesOfType(store, {"CUSTOMER", "BOTH"}) }
    IN  IF arAccount = NoVal THEN {}
        ELSE { r \in result : r.balance > 0 /\ r.balanceSide = "DR" }

\* GET /api/reports/payables
payables(store) ==
    LET apAccount == AccountWithRole(store, "AP")
        net(p) == (IF store.directory.parties[p].openingBalanceSide = "CR"
                   THEN store.directory.parties[p].openingBalance
                   ELSE - store.directory.parties[p].openingBalance)
                  - Signed(OnAccount(EntriesOfVouchers(store, PostedOfParty(store, p)), apAccount))
        result == { [ partyId     |-> p,
                      balance     |-> Abs(net(p)),
                      balanceSide |-> IF net(p) >= 0 THEN "CR" ELSE "DR" ] :
                    p \in PartiesOfType(store, {"SUPPLIER", "BOTH"}) }
    IN  IF apAccount = NoVal THEN {}
        ELSE { r \in result : r.balance > 0 /\ r.balanceSide = "CR" }

\* ---------------------------------------------------------------------
\* Specification of the reports alone: the store is one the ledger engine
\* can have built (each voucher absent, or created from one of
\* BookedInputs and still DRAFT or since POSTED), and every action is one
\* call of a report.
\* ---------------------------------------------------------------------
BookedInputs ==
    { ResolvedInput("SALE", "CASH_SALE", MaxAmount, "CASH", NoList, 1, NoVal, NoVal),
      ResolvedInput("SALE", "CASH_SALE", 1, "BANK", NoList, 2, NoVal, NoVal),
      ResolvedInput("SALE", "CREDIT_SALE", MaxAmount, NoVal, NoList, 2, NoVal, "CustomerA"),
      ResolvedInput("RECEIPT", NoVal, 1, "CASH", NoList, 3, NoVal, "CustomerA"),
      ResolvedInput("PURCHASE", "CREDIT_PURCHASE", MaxAmount, NoVal, NoList, 2, NoVal, "SupplierX"),
      ResolvedInput("PAYMENT", "VENDOR_PAYMENT", 1, "BANK", NoList, 3, NoVal, "SupplierX"),
      ResolvedInput("PURCHASE", "CASH_PURCHASE", 1, "CASH", NoList, 3, NoVal, NoVal),
      ResolvedInput("CONTRA", "CASH_TO_BANK", 1, NoVal, NoList, 1, NoVal, NoVal),
      ResolvedInput("JOURNAL", NoVal, 0, NoVal,
                    << GeneratedEntry("CASH", "DEBIT", MaxAmount),
                       GeneratedEntry("CASH", "CREDIT", 1),
                       GeneratedEntry("SALES", "CREDIT", MaxAmount - 1) >>,
                    2, NoVal, NoVal),
      ResolvedInput("JOURNAL", NoVal, 0, NoVal,
                    << GeneratedEntry("ACCOUNTS_RECEIVABLE", "DEBIT", MaxAmount),
                       GeneratedEntry("ACCOUNTS_PAYABLE", "CREDIT", MaxAmount) >>,
                    2, NoVal, "BothB") }

NotBooked == [status |-> "ABSENT"]

Booked(input, status) == [status |-> status, input |-> input]

BookedKinds ==
    { NotBooked } \cup { Booked(input, status) : input \in BookedInputs, status \in {"DRAFT", "POSTED"} }

\* the row of voucher v in the store picked: a POSTED voucher holds the
\* next number of its series, in the order of the ids
BookedRow(picked, v) ==
    IF picked[v] = NotBooked THEN NoRow
    ELSE IF picked[v].status = "DRAFT" THEN NewVoucher(picked[v].input)
    ELSE PostedRow(NewVoucher(picked[v].input),
            1 + Cardinality({ w \in 1..(v - 1) :
                    /\ picked[w] # NotBooked
                    /\ picked[w].status = "POSTED"
                    /\ picked[w].input.voucherTypeId = picked[v].input.voucherTypeId }))

BookedEntries(picked, v) ==
    IF picked[v] = NotBooked THEN <<>>
    ELSE EntryRows(v, 1, generateEntriesFromTemplate(createTemplateInput(picked[v].input)).entries)

ReportInit ==
    /\ \E picked \in [VoucherIds -> BookedKinds] :
        /\ vouchers = [v \in VoucherIds |-> BookedRow(picked, v)]
        /\ entries = [v \in VoucherIds |-> BookedEntries(picked, v)]
    /\ created = MaxVouchers
    /\ req = [p \in Workers |-> Idle]
    /\ outcome = Response("none", 0, NoVal, NoNumber)
    /\ opsStarted = 0
    /\ postResults = {}
    /\ tpl = <<>>
    /\ directory = Directory
    /\ report = NoReport
    /\ resolved = {}

\* the window bounds drawn for the reports
FromDates == {NoDate, 2, 3}
ToDates == {NoDate, 1, 2}

Reported(op, args, result) == [op |-> op, args |-> args, result |-> result]

\* GET /api/reports/cash-book
cashBook(fromDate, toDate, tie) ==
    /\ report = NoReport
    /\ report' = Reported("cash-book", <<fromDate, toDate>>,
                          getAccountBook(Store, "CASH", fromDate, toDate, tie))
    /\ UNCHANGED <<dbVars, tpl, directory, resolved>>

\* GET /api/reports/bank-book
bankBook(fromDate, toDate, tie) ==
    /\ report = NoReport
    /\ report' = Reported("bank-book", <<fromDate, toDate>>,
                          getAccountBook(Store, "BANK", fromDate, toDate, tie))
    /\ UNCHANGED <<dbVars, tpl, directory, resolved>>

trialBalanceReport(fromDate, toDate) ==
    /\ report = NoReport
    /\ report' = Reported("trial-balance", <<fromDate, toDate>>, trialBalance(Store, fromDate, toDate))
    /\ UNCHANGED <<dbVars, tpl, directory, resolved>>

\* GET /api/reports/profit-loss: from and to are both required
profitLoss(fromDate, toDate) ==
    /\ report = NoReport
    /\ report' = Reported("profit-loss", <<fromDate, toDate>>,
                          IF fromDate = NoDate \/ toDate = NoDate
                          THEN [ok |-> FALSE, error |-> "BadRequest"]
                          ELSE getProfitAndLoss(Store, fromDate, toDate))
    /\ UNCHANGED <<dbVars, tpl, directory, resolved>>

partyLedgerReport(partyId, fromDate, toDate) ==
    /\ report = NoReport
    /\ report' = Reported("party-ledger", <<partyId, fromDate, toDate>>,
                          partyLedger(Store, partyId, fromDate, toDate))
    /\ UNCHANGED <<dbVars, tpl, directory, resolved>>

\* Mutant of receivablesReport: the balance derived for each debtor is
\* written back to the party as its stored balance.
receivablesReportStoresBalance ==
    /\ report = NoReport
    /\ report' = Reported("receivables", <<>>, [ok |-> TRUE, rows |-> receivables(Store)])
    /\ directory' = [directory EXCEPT !.parties =
                        [q \in DOMAIN directory.parties |->
                            IF \E r \in receivables(Store) : r.partyId = q
                            THEN [directory.parties[q] EXCEPT
                                    !.openingBalance =
                                        (CHOOSE r \in receivables(Store) : r.partyId = q).balance]
                            ELSE directory.parties[q]]]
    /\ UNCHANGED <<dbVars, tpl, resolved>>

receivablesReport ==
    /\ report = NoReport
    /\ report' = Reported("receivables", <<>>, [ok |-> TRUE, rows |-> receivables(Store)])
    /\ UNCHANGED <<dbVars, tpl, directory, resolved>>

payablesReport ==
    /\ report = NoReport
    /\ report' = Reported("payables", <<>>, [ok |-> TRUE, rows |-> payables(Store)])
    /\ UNCHANGED <<dbVars, tpl, directory, resolved>>

ReportNext ==
    \/ \E fromDate \in FromDates, toDate \in ToDates, tie \in {"asc", "desc"} :
            cashBook(fromDate, toDate, tie)
    \/ \E fromDate \in FromDates, toDate \in ToDates, tie \in {"asc", "desc"} :
            bankBook(fromDate, toDate, tie)
    \/ \E fromDate \in FromDates, toDate \in ToDates : trialBalanceReport(fromDate, toDate)
    \/ \E fromDate \in FromDates, toDate \in ToDates : profitLoss(fromDate, toDate)
    \/ \E partyId \in DOMAIN Parties \cup {"NoSuchParty"}, fromDate \in FromDates, toDate \in ToDates :
            partyLedgerReport(partyId, fromDate, toDate)
    \/ receivablesReport
    \/ payablesReport

ReportSpec == ReportInit /\ [][ReportNext]_vars

\* ---------------------------------------------------------------------
\* The routes POST /api/vouchers/draft and PUT /api/vouchers/draft/:id with
\* their resolver.  resolveVoucherIds loads the company's accounts with
\* prisma.account.findMany and no orderBy, and findByRole takes the first
\* row of that list whose role matches: the order of the rows is the
\* store's choice at every call.  Account ids are written as the account
\* codes.
\* ---------------------------------------------------------------------
\* the accounts in the order the seed script inserts them
CreationOrder ==
    << "CASH", "BANK", "ACCOUNTS_RECEIVABLE", "ACCOUNTS_PAYABLE",
       "OWNER_CAPITAL", "SALES", "PURCHASE_EXPENSE", "RENT_EXPENSE" >>

\* the row orders drawn for findMany: insertion order and its reverse
ScanOrders ==
    { CreationOrder,
      [i \in 1..Len(CreationOrder) |-> CreationOrder[Len(CreationOrder) + 1 - i]] }

\* the seeded store without the accounts named
WithoutAccounts(codes) ==
    [Directory EXCEPT !.accounts = [code \in DOMAIN SeededAccounts \ codes |-> SeededAccounts[code]]]

\* the stores the resolver is called on: as seeded; no CASH account; no
\* account of role PURCHASE; one account of role PURCHASE
Directories ==
    { Directory,
      WithoutAccounts({"CASH"}),
      WithoutAccounts({"PURCHASE_EXPENSE", "RENT_EXPENSE"}),
      WithoutAccounts({"RENT_EXPENSE"}) }

\* Mutant of findByRole: a role no account has resolves to the first account.
RECURSIVE findByRoleOrFirst(_, _, _)
findByRoleOrFirst(accounts, found, role) ==
    IF found = <<>> THEN NoVal
    ELSE IF accounts[Head(found)].role = role \/ Len(found) = 1 THEN Head(found)
    ELSE findByRoleOrFirst(accounts, Tail(found), role)

\* accounts.find((a) => a.role === role); NoVal when find returns undefined
RECURSIVE findByRole(_, _, _)
findByRole(accounts, found, role) ==
    IF found = <<>> THEN NoVal
    ELSE IF accounts[Head(found)].role = role THEN Head(found)
    ELSE findByRole(accounts, Tail(found), role)

\* accounts.find((a) => a.code === code)
findByCode(found, code) ==
    IF \E i \in 1..Len(found) : found[i] = code THEN code ELSE NoVal

\* the request body of POST /draft and PUT /draft/:id
Payload(voucherType, subType, totalAmount, paymentMode, voucherDate, partyId, expenseAccountCode) ==
    [ voucherType        |-> voucherType,
      subType            |-> subType,
      totalAmount        |-> totalAmount,
      paymentMode        |-> paymentMode,
      narration          |-> NoVal,
      voucherDate        |-> voucherDate,
      partyId            |-> partyId,
      expenseAccountCode |-> expenseAccountCode,
      journalEntries     |-> NoList ]

Payloads ==
    { Payload("PURCHASE", "CASH_PURCHASE", MaxAmount, "CASH", 1, NoVal, NoVal),
      Payload("PAYMENT", "EXPENSE_PAYMENT", 1, "BANK", 2, NoVal, "RENT_EXPENSE"),
      Payload("PAYMENT", "EXPENSE_PAYMENT", 1, "BANK", 2, NoVal, "NO_SUCH_CODE"),
      Payload("SALE", "CREDIT_SALE", 1, NoVal, 2, "NoSuchParty", NoVal) }

ResolveThrows(error) == [ok |-> FALSE, error |-> error]

\* order: the order in which the store returns the account rows
resolveVoucherIds(dir, order, body) ==
    LET \* prisma.account.findMany({ where: { companyId } })
        found == SelectSeq(order, LAMBDA code : code \in DOMAIN dir.accounts)
        byRole(role) == findByRole(dir.accounts, found, role)
        paymentAccountId ==
            IF body.paymentMode \in {"CASH", "BANK"} THEN byRole(body.paymentMode) ELSE NoVal
        expensePayment == body.voucherType = "PAYMENT" /\ body.subType = "EXPENSE_PAYMENT"
        expenseAccountId ==
            IF expensePayment THEN findByCode(found, body.expenseAccountCode) ELSE NoVal
        accounts ==
            [ salesAccountId           |-> byRole("SALES"),
              purchaseExpenseAccountId |-> byRole("PURCHASE"),
              accountsReceivableId     |-> byRole("AR"),
              accountsPayableId        |-> byRole("AP"),
              ownerCapitalId           |-> byRole("OWNER"),
              cashAccountId            |-> byRole("CASH"),
              bankAccountId            |-> byRole("BANK") ]
    IN  IF dir.companies = {} THEN ResolveThrows("NoCompany")
        ELSE IF body.voucherType \notin dir.voucherTypes THEN ResolveThrows("VoucherTypeNotFound")
        ELSE IF body.paymentMode \in {"CASH", "BANK"} /\ paymentAccountId = NoVal
        THEN ResolveThrows("AccountRoleNotFound")
        ELSE IF expensePayment /\ body.expenseAccountCode = NoVal
        THEN ResolveThrows("ExpenseAccountCodeRequired")
        ELSE IF expensePayment /\ expenseAccountId = NoVal
        THEN ResolveThrows("AccountCodeNotFound")
        ELSE IF body.partyId # NoVal /\ body.partyId \notin DOMAIN dir.parties
        THEN ResolveThrows("PartyNotFound")
        ELSE IF \E k \in DOMAIN accounts : accounts[k] = NoVal
        THEN ResolveThrows("AccountRoleNotFound")
        ELSE [ ok |-> TRUE, value |->
                [ companyId        |-> Company,
                  voucherTypeId    |-> body.voucherType,
                  voucherType      |-> body.voucherType,
                  subType          |-> body.subType,
                  totalAmount      |-> body.totalAmount,
                  paymentAccountId |-> paymentAccountId,
                  expenseAccountId |-> expenseAccountId,
                  journalEntries   |-> body.journalEntries,
                  narration        |-> body.narration,
                  voucherDate      |-> body.voucherDate,
                  partyId          |-> body.partyId,
                  accounts         |-> accounts ] ]

\* POST /api/vouchers/draft: resolveVoucherIds, then createDraftVoucher
\* (whose transaction goes on with createDraftVoucherEntries)
postDraft(p, body, order) ==
    /\ CanStart(p)
    /\ opsStarted' = opsStarted + 1
    /\ LET r == resolveVoucherIds(directory, order, body)
       IN  /\ resolved' = resolved \cup {[body |-> body, result |-> r]}
           /\ IF ~ r.ok
              THEN /\ Fails(p, "createDraft", 0, r.error)
                   /\ UNCHANGED created
              ELSE /\ created < MaxVouchers
                   /\ created' = created + 1
                   /\ Begins(p, Started("createDraft", created + 1, r.value, NewVoucher(r.value)))
    /\ UNCHANGED <<vouchers, entries, postResults, tpl, directory, report>>

\* PUT /api/vouchers/draft/:id: the status check of the route, then
\* resolveVoucherIds, then updateDraftVoucher (whose transaction goes on
\* with updateDraftVoucherWrite)
putDraft(p, v, body, order) ==
    /\ CanStart(p)
    /\ opsStarted' = opsStarted + 1
    /\ LET verdict == updateGuard(vouchers[v])
           r == resolveVoucherIds(directory, order, body)
       IN  IF verdict # "ok"
           THEN /\ Fails(p, "updateDraft", v, verdict)
                /\ UNCHANGED resolved
           ELSE /\ resolved' = resolved \cup {[body |-> body, result |-> r]}
                /\ IF ~ r.ok
                   THEN Fails(p, "updateDraft", v, r.error)
                   ELSE Begins(p, Started("updateDraft", v, r.value, NoVal))
    /\ UNCHANGED <<vouchers, entries, created, postResults, tpl, directory, report>>

RouteInit ==
    /\ vouchers = [v \in VoucherIds |-> NoRow]
    /\ entries = [v \in VoucherIds |-> <<>>]
    /\ created = 0
    /\ req = [p \in Workers |-> Idle]
    /\ outcome = Response("none", 0, NoVal, NoNumber)
    /\ opsStarted = 0
    /\ postResults = {}
    /\ tpl = <<>>
    /\ directory \in Directories
    /\ report = NoReport
    /\ resolved = {}

\* the requests of this specification are served one at a time
RouteWorkers == {"w1"}

RouteNext ==
    \/ \E p \in RouteWorkers, body \in Payloads, order \in ScanOrders : postDraft(p, body, order)
    \/ \E p \in RouteWorkers : createDraftVoucherEntries(p)
    \/ \E p \in RouteWorkers : createDraftVoucherAbort(p)
    \/ \E p \in RouteWorkers, v \in VoucherIds, body \in Payloads, order \in ScanOrders :
            putDraft(p, v, body, order)
    \/ \E p \in RouteWorkers : updateDraftVoucherWrite(p)

RouteSpec == RouteInit /\ [][RouteNext]_vars

\* =====================================================================
\* Properties
\* =====================================================================
Exists(v) == IsRow(vouchers[v])
Posted(v) == vouchers[v].status = "POSTED"
Draft(v) == vouchers[v].status = "DRAFT"

SeriesOf(v) == <<vouchers[v].companyId, vouchers[v].voucherTypeId>>
AllSeries == { <<Company, t>> : t \in VoucherType }
PostedIn(series) == { v \in VoucherIds : Posted(v) /\ SeriesOf(v) = series }

\* C1: no two successful post calls on vouchers of the same (company,
\* voucher type) return the same voucher number.
C1_PostNumbersDistinct ==
    \A r1 \in postResults, r2 \in postResults :
        (r1.series = r2.series /\ r1.voucherNumber = r2.voucherNumber)
            => r1.voucherId = r2.voucherId

\* C2: for each (company, voucher type) the numbers held by POSTED vouchers
\* are exactly 1..n, n the number of POSTED vouchers of the pair.
C2_PostedNumbersContiguous ==
    \A series \in AllSeries :
        /\ { vouchers[v].voucherNumber : v \in PostedIn(series) }
                = 1..Cardinality(PostedIn(series))
        /\ \A v \in PostedIn(series), w \in PostedIn(series) :
                vouchers[v].voucherNumber = vouchers[w].voucherNumber => v = w

\* C3: once a voucher is POSTED, its row (status, number, date, narration,
\* party, type) and its entries never change and it is never removed.
C3_PostedImmutable ==
    [][ \A v \in VoucherIds :
            Posted(v) => (vouchers'[v] = vouchers[v] /\ entries'[v] = entries[v]) ]_vars


\* C4: updateDraft or deleteDraft called on a POSTED voucher fails with the
\* invalid-state error and leaves its header, number and entries as they
\* were; deleteDraft on a voucher that is still DRAFT succeeds and removes it.
C4_PostedRejectsUpdateDelete ==
    /\ [][ \A p \in Workers, v \in VoucherIds :
            ( /\ Posted(v)
              /\ \/ \E input \in UpdateInputs : updateDraftVoucherRead(p, v, input)
                 \/ deleteDraftVoucherRead(p, v) )
            => /\ outcome'.vid = v
               /\ outcome'.op \in {"updateDraft", "deleteDraft"}
               /\ outcome'.result = "InvalidState"
               /\ req'[p] = Idle
               /\ vouchers' = vouchers
               /\ entries' = entries ]_vars
    /\ [][ \A p \in Workers, v \in VoucherIds :
            (Draft(v) /\ deleteDraftVoucherRead(p, v))
                => req'[p] = Started("deleteDraft", v, NoVal, NoVal) ]_vars
    /\ [][ \A p \in Workers :
            (deleteDraftVoucherWrite(p) /\ Draft(req[p].vid))
                => /\ outcome' = Response("deleteDraft", req[p].vid, "ok", NoNumber)
                   /\ ~ IsRow(vouchers'[req[p].vid])
                   /\ entries'[req[p].vid] = <<>> ]_vars

C4_Witness ==
    /\ outcome.op \in {"updateDraft", "deleteDraft"}
    /\ outcome.result = "InvalidState"
    /\ Posted(outcome.vid)

\* C5: a voucher's number is non-null if and only if its status is POSTED.
C5_NumberIffPosted ==
    \A v \in VoucherIds :
        Exists(v) => (vouchers[v].voucherNumber # NoNumber <=> Posted(v))

C5_Witness ==
    \E v \in VoucherIds, w \in VoucherIds :
        /\ Posted(v) /\ vouchers[v].voucherNumber >= 1
        /\ Draft(w) /\ vouchers[w].voucherNumber = NoNumber

\* C6: post on a voucher succeeds once (a voucher becomes POSTED only by a
\* post call that returns its number, and a post that meets no conflicting
\* commit ends so); every later post call on it fails with the invalid-state
\* error, changes neither its number nor its status and takes no number of
\* the series.
C6_PostOnce ==
    /\ [][ \A v \in VoucherIds :
            (~ Posted(v) /\ vouchers'[v].status = "POSTED")
                => /\ outcome' = Response("postVoucher", v, "ok", vouchers'[v].voucherNumber)
                   /\ vouchers'[v].voucherNumber # NoNumber ]_vars
    /\ [][ \A p \in Workers :
            (postVoucherWrite(p) /\ ~ req[p].seen.doomed)
                => /\ Draft(req[p].vid)
                   /\ vouchers'[req[p].vid].status = "POSTED"
                   /\ outcome'.result = "ok" ]_vars
    /\ [][ \A p \in Workers, v \in VoucherIds :
            (Posted(v) /\ postVoucherRead(p, v))
                => /\ outcome' = Response("postVoucher", v, "InvalidState", NoNumber)
                   /\ req'[p] = Idle
                   /\ vouchers' = vouchers
                   /\ postResults' = postResults
                   /\ \A t \in VoucherType :
                        lastPosted(Company, t)' = lastPosted(Company, t) ]_vars

C6_Witness ==
    /\ outcome.op = "postVoucher"
    /\ outcome.result = "InvalidState"
    /\ Posted(outcome.vid)
    /\ \E r \in postResults :
        r.voucherId = outcome.vid /\ r.voucherNumber = vouchers[outcome.vid].voucherNumber

\* C7: every voucher, DRAFT or POSTED, has at least two entries, debits that
\* sum to its credits, and only entry amounts greater than zero.  The balance
\* is read with the tolerance of the invariant the claim restates.
C7_EveryVoucherWellFormed ==
    \A v \in VoucherIds :
        Exists(v) =>
            /\ Len(entries[v]) >= MinEntries
            /\ Abs(SumSide(entries[v], "DEBIT") - SumSide(entries[v], "CREDIT")) <= Epsilon
            /\ AllPositive(entries[v])

\* C8: every POSTED voucher has at least two entries, only positive entry
\* amounts, and a debit total exactly equal to its credit total.
C8_PostedWellFormed ==
    \A v \in VoucherIds :
        Posted(v) =>
            /\ Len(entries[v]) >= MinEntries
            /\ AllPositive(entries[v])
            /\ SumSide(entries[v], "DEBIT") = SumSide(entries[v], "CREDIT")

\* C9: whenever generateEntriesFromTemplate returns, the returned DEBIT
\* amounts and CREDIT amounts have exactly the same sum.
C9_GeneratedBalancedExactly ==
    (TemplateCalled /\ TemplateOut.ok)
        => SumSide(TemplateOut.entries, "DEBIT") = SumSide(TemplateOut.entries, "CREDIT")

\* C9 as amended: the sums are exactly equal for every templated (non-JOURNAL)
\* voucher type; for JOURNAL they differ by at most the tolerance 0.001.
C9_GeneratedBalanced ==
    (TemplateCalled /\ TemplateOut.ok)
        => IF TemplateIn.voucherType = "JOURNAL"
           THEN Abs(SumSide(TemplateOut.entries, "DEBIT")
                    - SumSide(TemplateOut.entries, "CREDIT")) <= Epsilon
           ELSE SumSide(TemplateOut.entries, "DEBIT") = SumSide(TemplateOut.entries, "CREDIT")

C9_Witness ==
    /\ TemplateCalled
    /\ TemplateOut.ok
    /\ TemplateIn.voucherType = "JOURNAL"
    /\ SumSide(TemplateOut.entries, "DEBIT") # SumSide(TemplateOut.entries, "CREDIT")

\* C10: for each templated pair the engine returns exactly two entries, a
\* DEBIT then a CREDIT, both of amount totalAmount, on the accounts of the
\* table of the specification.
TableAccount(role, input) ==
    CASE role = "payment"  -> input.paymentAccountId
      [] role = "expense"  -> input.expenseAccountId
      [] role = "sales"    -> input.accounts.salesAccountId
      [] role = "purchase" -> input.accounts.purchaseExpenseAccountId
      [] role = "AR"       -> input.accounts.accountsReceivableId
      [] role = "AP"       -> input.accounts.accountsPayableId
      [] role = "owner"    -> input.accounts.ownerCapitalId
      [] role = "cash"     -> input.accounts.cashAccountId
      [] role = "bank"     -> input.accounts.bankAccountId

\* <<voucher type, sub-type, debit, credit>>; RECEIPT has no sub-type
Table ==
    { <<"SALE", "CASH_SALE", "payment", "sales">>,
      <<"SALE", "CREDIT_SALE", "AR", "sales">>,
      <<"PURCHASE", "CASH_PURCHASE", "purchase", "payment">>,
      <<"PURCHASE", "CREDIT_PURCHASE", "purchase", "AP">>,
      <<"PAYMENT", "VENDOR_PAYMENT", "AP", "payment">>,
      <<"PAYMENT", "EXPENSE_PAYMENT", "expense", "payment">>,
      <<"PAYMENT", "OWNER_WITHDRAWAL", "owner", "payment">>,
      <<"CONTRA", "CASH_TO_BANK", "bank", "cash">>,
      <<"CONTRA", "BANK_TO_CASH", "cash", "bank">> }
    \cup { <<"RECEIPT", st, "payment", "AR">> : st \in SubTypes }

C10_TemplateTable ==
    TemplateCalled =>
        \A row \in Table :
            (TemplateIn.voucherType = row[1] /\ TemplateIn.subType = row[2])
            => IF TableAccount(row[3], TemplateIn) = NoVal
                  \/ TableAccount(row[4], TemplateIn) = NoVal
               THEN ~ TemplateOut.ok
               ELSE /\ TemplateOut.ok
                    /\ TemplateOut.entries =
                        << GeneratedEntry(TableAccount(row[3], TemplateIn), "DEBIT",
                                          TemplateIn.totalAmount),
                           GeneratedEntry(TableAccount(row[4], TemplateIn), "CREDIT",
                                          TemplateIn.totalAmount) >>

C10_Witness ==
    /\ TemplateCalled
    /\ TemplateIn.voucherType = "PAYMENT"
    /\ TemplateIn.subType = "EXPENSE_PAYMENT"
    /\ TemplateOut.ok
    /\ Len(TemplateOut.entries) = MinEntries
    /\ TemplateIn.totalAmount > 0

\* The sub-types the table of the specification lists for a voucher type;
\* RECEIPT is listed with none.
Recognized(voucherType) ==
    CASE voucherType = "SALE"     -> {"CASH_SALE", "CREDIT_SALE"}
      [] voucherType = "PURCHASE" -> {"CASH_PURCHASE", "CREDIT_PURCHASE"}
      [] voucherType = "PAYMENT"  -> {"VENDOR_PAYMENT", "EXPENSE_PAYMENT", "OWNER_WITHDRAWAL"}
      [] voucherType = "CONTRA"   -> {"CASH_TO_BANK", "BANK_TO_CASH"}
      [] voucherType = "RECEIPT"  -> {"", "RECEIPT"}
      [] OTHER -> SubTypes

NeedsPaymentAccount(input) ==
    \/ input.voucherType = "SALE" /\ input.subType = "CASH_SALE"
    \/ input.voucherType = "PURCHASE" /\ input.subType = "CASH_PURCHASE"
    \/ input.voucherType = "RECEIPT"
    \/ input.voucherType = "PAYMENT"

NeedsExpenseAccount(input) ==
    input.voucherType = "PAYMENT" /\ input.subType = "EXPENSE_PAYMENT"

JournalTooShort(input) ==
    /\ input.voucherType = "JOURNAL"
    /\ (input.journalEntries = NoList \/ Len(input.journalEntries) < MinEntries)

\* C11: generateEntriesFromTemplate throws whenever the sub-type is not one
\* recognized for the voucher type, whenever a needed payment account or
\* expense account is missing, and whenever a JOURNAL has fewer than two lines.
C11_TemplateRejects ==
    ( /\ TemplateCalled
      /\ \/ TemplateIn.subType \notin Recognized(TemplateIn.voucherType)
         \/ NeedsPaymentAccount(TemplateIn) /\ TemplateIn.paymentAccountId = NoVal
         \/ NeedsExpenseAccount(TemplateIn) /\ TemplateIn.expenseAccountId = NoVal
         \/ JournalTooShort(TemplateIn) )
    => (~ TemplateOut.ok /\ TemplateOut.entries = <<>>)

\* C11 as amended: the sub-type is examined for SALE, PURCHASE, PAYMENT and
\* CONTRA only; a RECEIPT is generated whatever sub-type comes with it.
C11_TemplateRejectsDispatched ==
    TemplateCalled =>
        /\ ( ( \/ /\ TemplateIn.voucherType \in {"SALE", "PURCHASE", "PAYMENT", "CONTRA"}
                  /\ TemplateIn.subType \notin Recognized(TemplateIn.voucherType)
               \/ NeedsPaymentAccount(TemplateIn) /\ TemplateIn.paymentAccountId = NoVal
               \/ NeedsExpenseAccount(TemplateIn) /\ TemplateIn.expenseAccountId = NoVal
               \/ JournalTooShort(TemplateIn) )
             => (~ TemplateOut.ok /\ TemplateOut.entries = <<>>) )
        /\ ( (TemplateIn.voucherType = "RECEIPT" /\ TemplateIn.paymentAccountId # NoVal)
             => TemplateOut.ok )

C11_Witness ==
    /\ TemplateCalled
    /\ TemplateIn.voucherType = "PAYMENT"
    /\ TemplateIn.subType = "EXPENSE_PAYMENT"
    /\ TemplateIn.paymentAccountId # NoVal
    /\ TemplateIn.expenseAccountId = NoVal
    /\ ~ TemplateOut.ok

JournalDifference(input) ==
    Abs(SumSide(input.journalEntries, "DEBIT") - SumSide(input.journalEntries, "CREDIT"))

CreateInFlight(p) == req[p].op = "createDraft" /\ req[p].pc = "tx"

\* C13: createDraft is atomic.  While a createDraft is in flight its voucher
\* is absent from the tables (no other operation sees the header without its
\* entries); when it fails or is abandoned the tables are as they were and
\* the voucher stays absent; when it commits, the header and the full
\* generated entry list appear in the same step.
C13_CreateAtomic ==
    /\ [](\A p \in Workers :
            CreateInFlight(p) =>
                (~ Exists(req[p].vid) /\ entries[req[p].vid] = <<>>))
    /\ [](\A v \in VoucherIds : Exists(v) => Len(entries[v]) >= MinEntries)
    /\ [][ \A p \in Workers :
            (createDraftVoucherEntries(p) \/ createDraftVoucherAbort(p))
            => LET v == req[p].vid
                   gen == generateEntriesFromTemplate(createTemplateInput(req[p].arg))
               IN  IF outcome'.result = "ok"
                   THEN /\ IsRow(vouchers'[v])
                        /\ entries'[v] = EntryRows(v, 1, gen.entries)
                        /\ Len(entries'[v]) >= MinEntries
                   ELSE /\ vouchers' = vouchers
                        /\ entries' = entries
                        /\ ~ IsRow(vouchers'[v]) ]_vars

\* a createDraft is in flight while another request on the same id has just
\* been answered "not found"
C13_Witness ==
    \E p \in Workers :
        /\ CreateInFlight(p)
        /\ outcome.vid = req[p].vid
        /\ outcome.op # "createDraft"
        /\ outcome.result = "NotFound"

\* the stored rows, read back as the engine's entries
AsGenerated(rows) ==
    [i \in 1..Len(rows) |-> GeneratedEntry(rows[i].accountId, rows[i].side, rows[i].amount)]

\* C14: a successful createDraft adds exactly one voucher, DRAFT with a null
\* number, whose entries are exactly the list the template engine returns
\* for the input, and changes no other voucher or entry.
C14_CreateAddsOneDraft ==
    [][ \A p \in Workers :
            (createDraftVoucherEntries(p) /\ outcome'.result = "ok")
            => LET v == req[p].vid
                   gen == generateEntriesFromTemplate(createTemplateInput(req[p].arg))
               IN  /\ ~ Exists(v)
                   /\ vouchers'[v].status = "DRAFT"
                   /\ vouchers'[v].voucherNumber = NoNumber
                   /\ vouchers'[v].voucherTypeId = req[p].arg.voucherTypeId
                   /\ gen.ok
                   /\ AsGenerated(entries'[v]) = gen.entries
                   /\ \A w \in VoucherIds \ {v} :
                        vouchers'[w] = vouchers[w] /\ entries'[w] = entries[w] ]_vars

C14_Witness ==
    /\ outcome = Response("createDraft", 2, "ok", NoNumber)
    /\ Exists(1)
    /\ Draft(2)
    /\ AsGenerated(entries[2]) =
            << GeneratedEntry("CASH", "DEBIT", MaxAmount),
               GeneratedEntry("SALES", "CREDIT", MaxAmount) >>

\* C15: after a successful updateDraft(v, input) on a voucher that is DRAFT,
\* none of the previous entries remain, and the stored voucher (type,
\* sub-type, party, date, narration, status DRAFT, null number) and its
\* entries are what createDraft(input) would have stored.
C15_UpdateEqualsCreate ==
    [][ \A p \in Workers :
            (updateDraftVoucherWrite(p) /\ Draft(req[p].vid) /\ outcome'.result = "ok")
            => LET v == req[p].vid
                   input == req[p].arg
               IN  /\ EntryIds(entries'[v]) \cap EntryIds(entries[v]) = {}
                   /\ vouchers'[v] = NewVoucher(input)
                   /\ AsGenerated(entries'[v]) =
                        generateEntriesFromTemplate(createTemplateInput(input)).entries ]_vars

\* C16: when updateDraft fails after its deleteMany, on an error of the
\* template engine or on the balance check, the voucher keeps its previous
\* header and its complete previous entries.
C16_FailedUpdateRollsBack ==
    [][ \A p \in Workers :
            ( /\ updateDraftVoucherWrite(p)
              /\ Exists(req[p].vid)
              /\ LET gen == generateEntriesFromTemplate(req[p].arg)
                 IN  ~ gen.ok \/ ~ updateBalanced(gen.entries) )
            => /\ outcome'.op = "updateDraft"
               /\ outcome'.result # "ok"
               /\ vouchers' = vouchers
               /\ entries' = entries ]_vars

C16_Witness ==
    /\ outcome.op = "updateDraft"
    /\ outcome.result = "UnbalancedEntries"
    /\ Exists(outcome.vid)
    /\ Len(entries[outcome.vid]) >= MinEntries

\* C17: a successful deleteDraft of a DRAFT voucher removes its header and
\* all its entries in one step and leaves every other voucher and entry as
\* it was; no entry is ever stored without its voucher; deleteDraft on an
\* absent voucher fails with not-found and changes nothing.
C17_DeleteRemovesAll ==
    /\ [](\A v \in VoucherIds : ~ Exists(v) => entries[v] = <<>>)
    /\ [][ \A p \in Workers :
            (deleteDraftVoucherWrite(p) /\ Draft(req[p].vid))
            => LET v == req[p].vid
               IN  /\ outcome' = Response("deleteDraft", v, "ok", NoNumber)
                   /\ ~ IsRow(vouchers'[v])
                   /\ entries'[v] = <<>>
                   /\ \A w \in VoucherIds \ {v} :
                        vouchers'[w] = vouchers[w] /\ entries'[w] = entries[w] ]_vars
    /\ [][ \A p \in Workers, v \in VoucherIds :
            (deleteDraftVoucherRead(p, v) /\ ~ Exists(v))
            => /\ outcome' = Response("deleteDraft", v, "NotFound", NoNumber)
               /\ req'[p] = Idle
               /\ vouchers' = vouchers
               /\ entries' = entries ]_vars
    /\ [][ \A p \in Workers :
            (deleteDraftVoucherWrite(p) /\ ~ Exists(req[p].vid))
            => /\ outcome' = Response("deleteDraft", req[p].vid, "RecordNotFound", NoNumber)
               /\ vouchers' = vouchers
               /\ entries' = entries ]_vars

\* a deleteDraft has removed one voucher and the other one is still whole
C17_Witness ==
    /\ outcome.op = "deleteDraft"
    /\ outcome.result = "ok"
    /\ ~ Exists(outcome.vid)
    /\ entries[outcome.vid] = <<>>
    /\ \E w \in VoucherIds : Exists(w) /\ Len(entries[w]) >= MinEntries

\* the failures of a post call the specification lists
PostMustFail(v) ==
    \/ ~ Exists(v)
    \/ ~ Draft(v)
    \/ Len(entries[v]) < MinEntries
    \/ ~ AllPositive(entries[v])
    \/ SumSide(entries[v], "DEBIT") # SumSide(entries[v], "CREDIT")

\* C18: a post call that fails (voucher absent, status not DRAFT, fewer than
\* two entries, a non-positive amount, debits not exactly equal to credits)
\* leaves every voucher's status and number unchanged and does not change
\* the number the next post of any (company, voucher type) receives.
C18_FailedPostChangesNothing ==
    /\ [][ \A p \in Workers, v \in VoucherIds :
            (postVoucherRead(p, v) /\ PostMustFail(v))
            => /\ outcome'.op = "postVoucher"
               /\ outcome'.vid = v
               /\ outcome'.result \in {"NotFound", "InvalidState", "UnbalancedEntries"}
               /\ outcome'.voucherNumber = NoNumber
               /\ req'[p] = Idle
               /\ vouchers' = vouchers
               /\ entries' = entries
               /\ postResults' = postResults
               /\ \A t \in VoucherType :
                    lastPosted(Company, t)' = lastPosted(Company, t) ]_vars
    /\ [][ \A p \in Workers :
            (postVoucherWrite(p) /\ outcome'.result # "ok")
            => /\ vouchers' = vouchers
               /\ entries' = entries
               /\ postResults' = postResults ]_vars

\* a post of a DRAFT voucher has just failed on its entries while the
\* series already holds number 1
C18_Witness ==
    /\ outcome.op = "postVoucher"
    /\ outcome.result = "UnbalancedEntries"
    /\ Draft(outcome.vid)
    /\ vouchers[outcome.vid].voucherNumber = NoNumber
    /\ \E w \in VoucherIds :
        /\ Posted(w)
        /\ SeriesOf(w) = SeriesOf(outcome.vid)
        /\ lastPosted(Company, vouchers[w].voucherTypeId) = 1

\* C19: a successful post sets the status to POSTED and the number to one
\* more than the largest number among the POSTED vouchers of the same
\* company and voucher type (1 if there is none), returns that number, and
\* leaves the next number of every other voucher type as it was.
C19_PostTakesNextNumber ==
    [][ \A p \in Workers :
            (postVoucherWrite(p) /\ outcome'.result = "ok")
            => LET v == req[p].vid
                   t == vouchers[v].voucherTypeId
               IN  /\ vouchers'[v].status = "POSTED"
                   /\ vouchers'[v].voucherNumber = lastPosted(Company, t) + 1
                   /\ outcome' = Response("postVoucher", v, "ok", vouchers'[v].voucherNumber)
                   /\ \A u \in VoucherType \ {t} :
                        lastPosted(Company, u)' = lastPosted(Company, u) ]_vars

\* C20: within one (company, voucher type) the numbers increase in commit
\* order: a successful post returns a number strictly greater than the
\* number every post of the series that committed before it has returned.
\* (A post of the series that commits while this one is in flight makes
\* this one fail, so the posts recorded when it commits are the posts that
\* had committed when it started.)
C20_NumbersIncreaseInCommitOrder ==
    [][ \A p \in Workers :
            (postVoucherWrite(p) /\ outcome'.result = "ok")
            => \A r \in postResults :
                    r.series = req[p].seen.series
                        => outcome'.voucherNumber > r.voucherNumber ]_vars

\* C21: a post transaction the storage engine aborts with a serialization
\* conflict is retried by the posting component; the conflict reaches the
\* caller only after more than one attempt, so a post of a valid DRAFT
\* voucher that loses a race does not end with the conflict of its first
\* attempt.
C21_ConflictRetried ==
    [][ \A p \in Workers :
            (postVoucherWrite(p) /\ outcome'.result = "SerializationConflict")
            => /\ req[p].seen.attempts > 1
               /\ ~ (Draft(req[p].vid) /\ ~ PostMustFail(req[p].vid)) ]_vars

\* ---------------------------------------------------------------------
\* Reports
\* ---------------------------------------------------------------------
BookReported == report # NoReport /\ report.op \in {"cash-book", "bank-book"} /\ report.result.ok

\* a balance and its side, as one signed number (DR positive)
SignedOf(balance, side) == IF side = "DR" THEN balance ELSE - balance

\* the signed sum of the POSTED entries on the account whose voucher is
\* dated on or after fromDate and no later than the day of toDate
SignedInWindow(accountId, fromDate, toDate) ==
    Signed(OnAccount(EntriesOfVouchers(Store,
        { v \in VoucherIds :
            /\ Exists(v) /\ Posted(v)
            /\ fromDate = NoDate \/ vouchers[v].voucherDate >= fromDate
            /\ toDate = NoDate
                \/ vouchers[v].voucherDate \div TicksPerDay <= toDate \div TicksPerDay }),
        accountId))

RECURSIVE SignedPrefix(_, _)
SignedPrefix(transactions, k) ==
    IF k = 0 THEN 0
    ELSE SignedPrefix(transactions, k - 1) + transactions[k].debit - transactions[k].credit

\* C22: in the cash or bank book the closing balance is the opening balance
\* plus the signed sum (debit positive, credit negative) of all POSTED
\* entries on the account inside the window, and the balance on the k-th
\* row is the opening balance plus the signed sum of the first k rows.
C22_BookRunningBalance ==
    BookReported =>
        LET r == report.result
            opening == SignedOf(r.openingBalance, r.openingBalanceSide)
        IN  /\ SignedOf(r.closingBalance, r.closingBalanceSide)
                = opening + SignedInWindow(r.accountId, report.args[1], report.args[2])
            /\ \A k \in 1..Len(r.transactions) :
                SignedOf(r.transactions[k].balance, r.transactions[k].balanceSide)
                    = opening + SignedPrefix(r.transactions, k)

\* a book with an opening balance, two rows or more and a balance that
\* changes side along the rows
C22_Witness ==
    /\ BookReported
    /\ report.result.openingBalance > 0
    /\ Len(report.result.transactions) >= 2
    /\ \E k \in 1..Len(report.result.transactions) :
        report.result.transactions[k].credit > 0
    /\ report.result.closingBalance # report.result.openingBalance

\* the POSTED entries on the account, each with the date and the id of its
\* voucher
PostedOnAccount(accountId) ==
    { [id |-> entries[v][i].id, date |-> vouchers[v].voucherDate, voucherId |-> v,
       signed |-> IF entries[v][i].side = "DEBIT" THEN entries[v][i].amount
                  ELSE - entries[v][i].amount] :
        <<v, i>> \in { <<w, j>> \in VoucherIds \X (1..MaxJournalLen) :
                        /\ Exists(w) /\ Posted(w)
                        /\ j <= Len(entries[w])
                        /\ entries[w][j].accountId = accountId } }

RECURSIVE SumSigned(_)
SumSigned(es) ==
    IF es = {} THEN 0
    ELSE LET e == CHOOSE x \in es : TRUE IN e.signed + SumSigned(es \ {e})

\* C23: in the account book the opening balance is the signed sum of exactly
\* the POSTED entries on the account dated strictly before the window start
\* (zero when no start is given); every POSTED entry on the account dated
\* up to the window end is counted exactly once, in the opening balance or
\* as a row; the rows are in voucher-date order, ties broken by creation
\* order.
C23_BookPartition ==
    BookReported =>
        LET r == report.result
            fromDate == report.args[1]
            toDate == report.args[2]
            all == PostedOnAccount(r.accountId)
            before == { e \in all : fromDate # NoDate /\ e.date < fromDate }
            upToEnd == { e \in all :
                            toDate = NoDate
                            \/ e.date \div TicksPerDay <= toDate \div TicksPerDay }
            rowIds == { r.transactions[k].entryId : k \in 1..Len(r.transactions) }
        IN  /\ SignedOf(r.openingBalance, r.openingBalanceSide) = SumSigned(before)
            /\ Cardinality(rowIds) = Len(r.transactions)
            /\ rowIds \subseteq { e.id : e \in all }
            /\ \A e \in upToEnd : (e \in before) # (e.id \in rowIds)
            /\ \A i \in 1..Len(r.transactions), j \in 1..Len(r.transactions) :
                i < j =>
                    \/ r.transactions[i].date < r.transactions[j].date
                    \/ /\ r.transactions[i].date = r.transactions[j].date
                       /\ r.transactions[i].voucherId <= r.transactions[j].voucherId

\* a book whose window starts after a POSTED entry of the account and whose
\* rows come from a voucher created before the voucher of the opening
\* balance
C23_Witness ==
    /\ BookReported
    /\ report.args[1] # NoDate
    /\ report.result.openingBalance > 0
    /\ Len(report.result.transactions) >= 1
    /\ \E e \in PostedOnAccount(report.result.accountId) :
        /\ e.date < report.args[1]
        /\ e.voucherId > report.result.transactions[1].voucherId

ProfitLossReported == report # NoReport /\ report.op = "profit-loss" /\ report.result.ok

\* the POSTED entries on the accounts of one type whose voucher is dated
\* from fromDate to the end of the day of toDate
PostedOfTypeInWindow(accountType, fromDate, toDate) ==
    UNION { { e \in PostedOnAccount(a) :
                /\ e.date >= fromDate
                /\ e.date \div TicksPerDay <= toDate \div TicksPerDay } :
            a \in { x \in DOMAIN SeededAccounts : SeededAccounts[x].accountType = accountType } }

\* C25: Profit & Loss reports, per INCOME account, credit minus debit and,
\* per EXPENSE account, debit minus credit, over exactly the POSTED entries
\* whose voucher date lies in the window (the end bound inclusive through
\* the end of its day); totalIncome and totalExpenses are the sums of the
\* rows, and netProfit = totalIncome - totalExpenses.
C25_ProfitAndLoss ==
    ProfitLossReported =>
        LET r == report.result
            fromDate == report.args[1]
            toDate == report.args[2]
            InDays(e) == e.date >= fromDate /\ e.date \div TicksPerDay <= toDate \div TicksPerDay
        IN  /\ DOMAIN r.income = { a \in DOMAIN SeededAccounts : SeededAccounts[a].accountType = "INCOME" }
            /\ DOMAIN r.expenses = { a \in DOMAIN SeededAccounts : SeededAccounts[a].accountType = "EXPENSE" }
            /\ \A a \in DOMAIN r.income :
                r.income[a] = - SumSigned({ e \in PostedOnAccount(a) : InDays(e) })
            /\ \A a \in DOMAIN r.expenses :
                r.expenses[a] = SumSigned({ e \in PostedOnAccount(a) : InDays(e) })
            /\ r.totalIncome = - SumSigned(PostedOfTypeInWindow("INCOME", fromDate, toDate))
            /\ r.totalExpenses = SumSigned(PostedOfTypeInWindow("EXPENSE", fromDate, toDate))
            /\ r.netProfit = r.totalIncome - r.totalExpenses

\* a Profit & Loss with income and an expense, the expense dated on the day
\* of the end bound but after the instant given
C25_Witness ==
    /\ ProfitLossReported
    /\ report.result.totalIncome > 0
    /\ report.result.totalExpenses > 0
    /\ report.result.netProfit # 0
    /\ \E e \in PostedOfTypeInWindow("EXPENSE", report.args[1], report.args[2]) :
        e.date > report.args[2]

\* the roles whose entries a party ledger accumulates
RelevantRoles(type) ==
    IF type = "CUSTOMER" THEN {"AR"}
    ELSE IF type = "SUPPLIER" THEN {"AP"}
    ELSE {"AR", "AP"}

\* the POSTED entries of the party's vouchers in the window, on the
\* accounts of the roles relevant to the party
PartyEntries(partyId, fromDate, toDate) ==
    UNION { { e \in PostedOnAccount(a) :
                /\ vouchers[e.voucherId].partyId = partyId
                /\ fromDate = NoDate \/ e.date >= fromDate
                /\ toDate = NoDate \/ e.date \div TicksPerDay <= toDate \div TicksPerDay } :
            a \in { x \in DOMAIN SeededAccounts :
                        SeededAccounts[x].role \in RelevantRoles(Parties[partyId].type) } }

\* C26: the party ledger starts from the party's stored opening balance and
\* side, accumulates for each POSTED voucher of the party in the window only
\* the entries on accounts of role AR for a CUSTOMER, AP for a SUPPLIER, AR
\* or AP for a BOTH party, and its closing balance is the signed opening
\* balance plus the debit-minus-credit sum of those entries.
C26_PartyLedger ==
    (report # NoReport /\ report.op = "party-ledger" /\ report.args[1] \in DOMAIN Parties) =>
        LET r == report.result
            party == Parties[report.args[1]]
        IN  /\ r.ok
            /\ r.openingBalance = party.openingBalance
            /\ r.openingBalanceSide = party.openingBalanceSide
            /\ SignedOf(r.closingBalance, r.closingBalanceSide)
                = SignedOf(party.openingBalance, party.openingBalanceSide)
                  + SumSigned(PartyEntries(report.args[1], report.args[2], report.args[3]))

\* the closing balance of the cash book up to toDate, signed (DR positive)
CashClosing(store, toDate) ==
    SignedOf(getAccountBook(store, "CASH", NoDate, toDate, "asc").closingBalance,
             getAccountBook(store, "CASH", NoDate, toDate, "asc").closingBalanceSide)

\* a cash sale of amount A paid in cash
IsCashSale(input) ==
    /\ input.voucherType = "SALE"
    /\ input.subType = "CASH_SALE"
    /\ input.paymentAccountId = "CASH"

CashSaleEntries(amount) ==
    << GeneratedEntry("CASH", "DEBIT", amount), GeneratedEntry("SALES", "CREDIT", amount) >>

\* C27: from a company with no POSTED SALE voucher, createDraft of a
\* CASH_SALE with amount A and payment CASH stores the entries
\* [CASH DEBIT A, SALES CREDIT A] and leaves the cash book unchanged;
\* posting it returns voucher number 1, and afterwards the closing balance
\* of the cash book is the previous closing balance plus A on the DR side.
C27_CashSaleScenario ==
    /\ [][ \A p \in Workers :
            (/\ req[p].op = "createDraft"
             /\ IsCashSale(req[p].arg)
             /\ outcome'.result = "ok"
             /\ createDraftVoucherEntries(p))
            => /\ AsGenerated(entries'[req[p].vid]) = CashSaleEntries(req[p].arg.totalAmount)
               /\ \A toDate \in ToDates :
                    getAccountBook(Store', "CASH", NoDate, toDate, "asc")
                        = getAccountBook(Store, "CASH", NoDate, toDate, "asc") ]_vars
    /\ [][ \A p \in Workers, v \in VoucherIds :
            (/\ CanStart(p)
             /\ Draft(v)
             /\ vouchers[v].voucherTypeId = "SALE"
             /\ PostedIn(<<Company, "SALE">>) = {}
             /\ \E A \in 1..(2 * MaxAmount) : AsGenerated(entries[v]) = CashSaleEntries(A)
             /\ postVoucherRead(p, v))
            => /\ req'[p].op = "postVoucher"
               /\ req'[p].seen.nextVoucherNumber = 1 ]_vars
    /\ [][ \A p \in Workers :
            (/\ req[p].op = "postVoucher"
             /\ outcome'.result = "ok"
             /\ \E A \in 1..(2 * MaxAmount) : AsGenerated(entries[req[p].vid]) = CashSaleEntries(A)
             /\ postVoucherWrite(p))
            => /\ outcome'.voucherNumber = req[p].seen.nextVoucherNumber
               /\ vouchers'[req[p].vid].voucherNumber = req[p].seen.nextVoucherNumber
               /\ vouchers'[req[p].vid].status = "POSTED"
               /\ \A toDate \in {NoDate, vouchers[req[p].vid].voucherDate} :
                    CashClosing(Store', toDate)
                        = CashClosing(Store, toDate) + entries[req[p].vid][1].amount ]_vars

\* the cash sale of amount MaxAmount has been created and posted as the
\* first SALE voucher, and the cash book closes at MaxAmount DR
C27_Witness ==
    /\ outcome.op = "postVoucher"
    /\ outcome.result = "ok"
    /\ outcome.voucherNumber = 1
    /\ Posted(outcome.vid)
    /\ vouchers[outcome.vid].voucherTypeId = "SALE"
    /\ AsGenerated(entries[outcome.vid]) = CashSaleEntries(MaxAmount)
    /\ PostedIn(<<Company, "SALE">>) = {outcome.vid}
    /\ CashClosing(Store, NoDate) = MaxAmount

\* a step of createDraft, updateDraft, deleteDraft or post: a request of one
\* of them starts, goes on or ends
LedgerStep ==
    \E p \in Workers :
        \/ req[p].op \in {"createDraft", "updateDraft", "deleteDraft", "postVoucher"}
        \/ req'[p].op \in {"createDraft", "updateDraft", "deleteDraft", "postVoucher"}
        \/ /\ req[p] = Idle
           /\ outcome' # outcome
           /\ outcome'.op \in {"createDraft", "updateDraft", "deleteDraft", "postVoucher"}
        \/ /\ req[p] = Idle
           /\ opsStarted' # opsStarted
           /\ outcome'.op \in {"createDraft", "updateDraft", "deleteDraft", "postVoucher"}

\* C28: createDraft, updateDraft, deleteDraft and post change only vouchers
\* and entries: companies, account types, accounts, parties and voucher
\* types are the same before and after every step of these calls, whether
\* the call succeeds or fails.
C28_LedgerWritesOnlyVouchersAndEntries ==
    [][ LedgerStep =>
            /\ directory'.companies = directory.companies
            /\ directory'.accountTypes = directory.accountTypes
            /\ directory'.accounts = directory.accounts
            /\ directory'.parties = directory.parties
            /\ directory'.voucherTypes = directory.voucherTypes ]_vars

\* a voucher that names a party has been created and posted, and the last
\* call has failed: the parties are as they were
C28_Witness ==
    /\ \E v \in VoucherIds : Posted(v) /\ vouchers[v].partyId # NoVal
    /\ outcome.op \in {"createDraft", "updateDraft", "deleteDraft", "postVoucher"}
    /\ outcome.result \notin {"ok", NoVal}
    /\ directory.parties = Parties

\* C29: every report operation (cash book, bank book, party ledger, trial
\* balance, profit and loss, receivables, payables), whatever it answers,
\* leaves the whole store unchanged: no voucher, entry, account or party
\* differs after the call.
C29_ReportsReadOnly ==
    [][ report' # report =>
            /\ report'.op \in {"cash-book", "bank-book", "party-ledger", "trial-balance",
                               "profit-loss", "receivables", "payables"}
            /\ vouchers' = vouchers
            /\ entries' = entries
            /\ directory' = directory
            /\ Store' = Store ]_vars

\* a report has answered on a store that holds a POSTED voucher and a DRAFT
\* one, and a debtor is owed money
C29_Witness ==
    /\ report # NoReport
    /\ report.op = "receivables"
    /\ report.result.rows # {}
    /\ \E v \in VoucherIds : Posted(v)
    /\ \E v \in VoucherIds : Draft(v)

\* the windows the reports are compared on: unbounded, bounded from below
\* (leaves out the vouchers of day 0), bounded from above (leaves out those
\* of day 1)
Windows == { <<NoDate, NoDate>>, <<2, NoDate>>, <<NoDate, 1>> }

\* the answer of every report operation, for every window and party drawn
AllReports(store) ==
    [ books       |-> [ a \in {"CASH", "BANK"} \X Windows |->
                            getAccountBook(store, a[1], a[2][1], a[2][2], "asc") ],
      trial       |-> [ w \in Windows |-> trialBalance(store, w[1], w[2]) ],
      profitLoss  |-> [ w \in Windows |-> getProfitAndLoss(store, w[1], w[2]) ],
      ledgers     |-> [ a \in (DOMAIN Parties \cup {"NoSuchParty"}) \X Windows |->
                            partyLedger(store, a[1], a[2][1], a[2][2]) ],
      receivables |-> receivables(store),
      payables    |-> payables(store) ]

\* the committing step of createDraft, of the regeneration (PUT), of the
\* PATCH edit or of deleteDraft by request p: the request ends and the
\* store is written
DraftWrite(p) ==
    /\ req[p].op \in {"createDraft", "updateDraft", "patchDraft", "deleteDraft"}
    /\ req'[p] = Idle
    /\ Store' # Store

\* C30: report results depend only on POSTED vouchers: the step by which a
\* DRAFT voucher is created, regenerated, PATCH-edited or deleted changes the
\* answer of no report (cash and bank book, party ledger, trial balance,
\* profit and loss, receivables, payables), for any window.
C30_ReportsIgnoreDrafts ==
    [][ \A p \in Workers :
            (DraftWrite(p) /\ ~ Posted(req[p].vid))
            => AllReports(Store') = AllReports(Store) ]_vars

\* a DRAFT voucher has just been rewritten or removed while another voucher
\* is POSTED and shows in the cash book
C30_Witness ==
    /\ outcome.op \in {"updateDraft", "patchDraft", "deleteDraft"}
    /\ outcome.result = "ok"
    /\ ~ Posted(outcome.vid)
    /\ \E v \in VoucherIds : Posted(v) /\ v # outcome.vid
    /\ getAccountBook(Store, "CASH", NoDate, NoDate, "asc").transactions # <<>>

\* =====================================================================
\* Resolver and routes
\* =====================================================================
\* the payload asks for a role or a code no account of the company has;
\* the roles looked up for every payload are those of the seven control
\* accounts, the payment mode's among them
AsksForMissingAccount(body) ==
    \/ \E role \in {"SALES", "PURCHASE", "AR", "AP", "OWNER", "CASH", "BANK"} :
            \A code \in DOMAIN directory.accounts : directory.accounts[code].role # role
    \/ /\ body.voucherType = "PAYMENT"
       /\ body.subType = "EXPENSE_PAYMENT"
       /\ body.expenseAccountCode # NoVal
       /\ body.expenseAccountCode \notin DOMAIN directory.accounts

\* C31: resolving a payload that needs a role or a code no account of the
\* company has fails with a not-found error, and a POST /draft or
\* PUT /draft/:id request whose resolution fails ends at once and leaves
\* every voucher and every entry as it was.  (Both routes count the
\* request in opsStarted, which no other step changes, and record the call
\* in resolved; the two tests only spare evaluating the resolver on steps
\* that cannot be such a request.)
C31_ResolutionFailurePersistsNothing ==
    /\ [](\A x \in resolved :
            AsksForMissingAccount(x.body) =>
                /\ ~ x.result.ok
                /\ x.result.error \in {"AccountRoleNotFound", "AccountCodeNotFound",
                                       "PartyNotFound", "VoucherTypeNotFound"})
    /\ [][ opsStarted' # opsStarted =>
            \A p \in RouteWorkers, body \in Payloads, order \in ScanOrders :
                LET r == resolveVoucherIds(directory, order, body)
                IN  (/\ \E x \in resolved' : x.body = body /\ ~ x.result.ok
                     /\ ~ r.ok
                     /\ \/ postDraft(p, body, order)
                        \/ \E v \in VoucherIds : Draft(v) /\ putDraft(p, v, body, order))
                    => /\ vouchers' = vouchers
                       /\ entries' = entries
                       /\ created' = created
                       /\ req'[p] = Idle
                       /\ outcome'.result = r.error ]_vars

\* a PUT on a DRAFT voucher has failed on an expense account code the
\* company does not have, and the voucher still holds its entries
C31_Witness ==
    /\ outcome.op = "updateDraft"
    /\ outcome.result = "AccountCodeNotFound"
    /\ Draft(outcome.vid)
    /\ Len(entries[outcome.vid]) = 2
    /\ \E x \in resolved : ~ x.result.ok /\ AsksForMissingAccount(x.body)

\* C32: role resolution is deterministic: while the account set of the
\* company is unchanged, two resolutions of the same payload return the same
\* account id for every role, also for a role several accounts share, so
\* two createDraft calls with the same payload generate entries on the
\* same accounts.
C32_ResolutionDeterministic ==
    \A x, y \in resolved :
        (x.body = y.body /\ x.result.ok /\ y.result.ok)
        => /\ x.result.value.accounts = y.result.value.accounts
           /\ generateEntriesFromTemplate(createTemplateInput(x.result.value))
                = generateEntriesFromTemplate(createTemplateInput(y.result.value))

\* C33: when post calls on the same DRAFT voucher run concurrently, at most
\* one of them returns success: the successful call leaves the voucher
\* POSTED with the number it returns and adds exactly that voucher to the
\* POSTED vouchers of its series, and a call that comes to its write after
\* the voucher has been POSTED fails and changes nothing, the voucher
\* keeping the number returned to the successful call.
C33_ConcurrentPostOnce ==
    /\ [](\A r1 \in postResults, r2 \in postResults :
            r1.voucherId = r2.voucherId => r1 = r2)
    /\ [][ \A p \in Workers :
            (postVoucherWrite(p) /\ outcome'.result = "ok")
            => /\ Draft(req[p].vid)
               /\ vouchers'[req[p].vid].status = "POSTED"
               /\ vouchers'[req[p].vid].voucherNumber = outcome'.voucherNumber
               /\ { v \in VoucherIds : vouchers'[v].status = "POSTED" }
                    = { v \in VoucherIds : Posted(v) } \cup {req[p].vid}
               /\ \A q \in Workers \ {p} :
                    (req[q].op = "postVoucher" /\ req[q].vid = req[p].vid)
                        => req'[q].seen.doomed ]_vars
    /\ [][ \A p \in Workers :
            (/\ req[p].op = "postVoucher"
             /\ Posted(req[p].vid)
             /\ postVoucherWrite(p))
            => /\ outcome'.result # "ok"
               /\ vouchers' = vouchers
               /\ postResults' = postResults
               /\ \E r \in postResults :
                    /\ r.voucherId = req[p].vid
                    /\ r.voucherNumber = vouchers[req[p].vid].voucherNumber ]_vars

\* two post calls read the same DRAFT voucher; one has succeeded and the
\* other has just failed at its write, the voucher holding the number
\* returned
C33_Witness ==
    /\ outcome.op = "postVoucher"
    /\ outcome.result = "SerializationConflict"
    /\ Posted(outcome.vid)
    /\ \E r \in postResults :
        /\ r.voucherId = outcome.vid
        /\ r.voucherNumber = vouchers[outcome.vid].voucherNumber
    /\ Cardinality({ r \in postResults : r.voucherId = outcome.vid }) = 1

\* C34: every DRAFT voucher a successful createDraft or updateDraft leaves
\* passes the validation of post: a post that comes next, with no other
\* operation in between, does not fail with the entry-count, the
\* positive-amount or the debit-equals-credit error.
C34_DraftsPassPostValidation ==
    [][ \A p \in Workers :
            (/\ req[p].op \in {"createDraft", "updateDraft"}
             /\ outcome'.result = "ok"
             /\ createDraftVoucherEntries(p) \/ updateDraftVoucherWrite(p))
            => postValidate(vouchers'[req[p].vid], entries'[req[p].vid]) # "UnbalancedEntries" ]_vars

\* C35: updateDraft accepts exactly the inputs createDraft accepts: on the
\* entries the template engine returns for an input, the balance test of
\* updateDraftVoucher succeeds if and only if that of createDraftVoucher
\* succeeds.
C35_UpdateAcceptsWhatCreateAccepts ==
    (TemplateCalled /\ TemplateOut.ok)
    => (updateBalanced(TemplateOut.entries) <=> createBalanced(TemplateOut.entries))

\* C36: a PATCH with a totalAmount that succeeds on a DRAFT voucher keeps
\* the number of entries and the account and side of each entry, and
\* leaves the voucher with a debit total equal to its credit total and to
\* the new totalAmount, whatever other PATCH or PUT of the same voucher
\* ran between its read and its transaction.
C36_PatchRescalesBalanced ==
    [][ \A p \in Workers :
            (/\ patchDraftWrite(p)
             /\ req[p].arg.totalAmount # NoAmount
             /\ outcome'.result = "ok")
            => LET v == req[p].vid
               IN  /\ Len(entries'[v]) = Len(entries[v])
                   /\ \A i \in 1..Len(entries[v]) :
                        /\ entries'[v][i].accountId = entries[v][i].accountId
                        /\ entries'[v][i].side = entries[v][i].side
                   /\ SumSide(entries'[v], "DEBIT") = SumSide(entries'[v], "CREDIT")
                   /\ SumSide(entries'[v], "DEBIT") = req[p].arg.totalAmount ]_vars

\* C37: for a CUSTOMER party the receivables report lists the party exactly
\* when the closing balance of its party ledger, taken with no date
\* window, is a positive DR, and the balance and side it lists are that
\* closing balance and side; likewise for a SUPPLIER party, the payables
\* report and a positive CR closing balance.
C37_OutstandingMatchesLedger ==
    \A kind \in { <<"receivables", "CUSTOMER", "DR">>, <<"payables", "SUPPLIER", "CR">> } :
        (report # NoReport /\ report.op = kind[1]) =>
            \A p \in { q \in DOMAIN Parties : Parties[q].type = kind[2] } :
                LET ledger == partyLedger(Store, p, NoDate, NoDate)
                    listed == { r \in report.result.rows : r.partyId = p }
                IN  /\ ledger.ok
                    /\ (listed # {}) <=> (ledger.closingBalance > 0 /\ ledger.closingBalanceSide = kind[3])
                    /\ \A r \in listed : /\ r.balance = ledger.closingBalance
                                         /\ r.balanceSide = ledger.closingBalanceSide

====
